---- MODULE Spec2Model ----
(***************************************************************************)
(* Circle Warriors Battle: the round driver (Game), the headless           *)
(* simulation (runOneRound), the combat resolver, the payout ledger, the   *)
(* outcome controller and the seeded RNG.                                  *)
(*                                                                         *)
(* Units.  Money is counted in tenths of a FUN (BET_AMOUNT = 10 FUN is     *)
(* 100).  Probabilities, the weapon assist and the speed multiplier are    *)
(* counted in hundredths (0.8 is 80).  Time is counted in thirds of a      *)
(* millisecond, so that the fixed step 1/60 s is the integer 50 and the    *)
(* cooldown of 120 ms is 360.  A 32-bit word is a pair <<hi, lo>> of       *)
(* 16-bit halves.                                                          *)
(*                                                                         *)
(* Geometry.  Positions, velocities and rotation are floating point in the *)
(* source.  The round drivers here do not carry them: each physics step    *)
(* receives the list of colliding pairs and their three overlaps as an     *)
(* input, as well as whether the player touches the pickup.                *)
(***************************************************************************)
EXTENDS Integers, Sequences, FiniteSets, TLC

\* ------------------------------------------------------------------ Rng.ts
W16 == 65536

RECURSIVE XorBits(_, _, _)
XorBits(a, b, n) ==
    IF n = 0 THEN 0
    ELSE (((a % 2) + (b % 2)) % 2) + 2 * XorBits(a \div 2, b \div 2, n - 1)

\* a ^ b on four-bit digits, tabulated
XorNibble == [a \in 0 .. 15 |-> [b \in 0 .. 15 |-> XorBits(a, b, 4)]]

Xor16(a, b) ==
    XorNibble[a % 16][b % 16]
    + 16 * XorNibble[(a \div 16) % 16][(b \div 16) % 16]
    + 256 * XorNibble[(a \div 256) % 16][(b \div 256) % 16]
    + 4096 * XorNibble[a \div 4096][b \div 4096]

\* x ^ y on 32-bit words
Xor32(x, y) == <<Xor16(x[1], y[1]), Xor16(x[2], y[2])>>

\* x >>> k for 0 < k < 16, with p = 2^k and q = 2^(16-k)
Shr32(x, p, q) == <<x[1] \div p, (x[2] \div p) + (x[1] % p) * q>>

\* (x + y) >>> 0
Add32(x, y) ==
    LET lo == x[2] + y[2]
    IN  <<(x[1] + y[1] + (lo \div W16)) % W16, lo % W16>>

\* (a * b) mod 2^16 for 16-bit a, b, without leaving 31 bits
MulMod16(a, b) == ((a % 256) * b + (((a \div 256) * b) % 256) * 256) % W16

\* Math.imul(x, y): the low 32 bits of the product
Imul(x, y) ==
    LET q      == (x[2] \div 256) * y[2]
        lowsum == (x[2] % 256) * y[2] + (q % 256) * 256
        carry  == (lowsum \div W16) + (q \div 256)
    IN  <<(carry + MulMod16(x[1], y[2]) + MulMod16(x[2], y[1])) % W16,
          lowsum % W16>>

\* 1 | x  and  61 | x
Or1(x)  == <<x[1], x[2] + (1 - (x[2] % 2))>>
Or61(x) == <<x[1], x[2] - (x[2] % 64) + 61 + 2 * ((x[2] \div 2) % 2)>>

GOLDEN == <<27947, 31221>>      \* 0x6d2b79f5

\* t ^ (t >>> 14), returned with the state st
Mix3(st, t2) == [state |-> st, value |-> Xor32(t2, Shr32(t2, 16384, 4))]

\* t = (t + Math.imul(t ^ (t >>> 7), 61 | t)) >>> 0
Mix2(st, t1) ==
    Mix3(st, Add32(t1, Imul(Xor32(t1, Shr32(t1, 128, 512)), Or61(t1))))

\* t = Math.imul(state ^ (state >>> 15), 1 | state)
Mix1(st) == Mix2(st, Imul(Xor32(st, Shr32(st, 32768, 2)), Or1(st)))

\* a generator that returns the value without storing the new state
RngNextStale(s) == [state |-> s, value |-> Mix1(Add32(s, GOLDEN)).value]

\* Rng.next(): the new state and the 32-bit numerator of the float returned
RngNext(s) == Mix1(Add32(s, GOLDEN))

\* floor(value / 2^32 * n) for 0 < n <= 1000: the draw scaled to 0..n-1
Scaled(v, n) == (v[1] * n + (v[2] * n) \div W16) \div W16

\* value / 2^32 < p / 100
Below(v, p) == Scaled(v, 100) < p

Min(a, b) == IF a < b THEN a ELSE b
Max(a, b) == IF a > b THEN a ELSE b
Abs(a)    == IF a < 0 THEN -a ELSE a

\* -------------------------------------------------------------- Economy.ts
BET_AMOUNT     == 100     \* 10 FUN
BOOSTER_COST   == 10      \* 1 FUN
WEAPON_REWARD  == 10      \* 1.0 FUN
DAMAGE_PENALTY == 8       \* 0.8 FUN
WIN_BONUS_NET  == BET_AMOUNT \div 2

\* new Economy(initialBalance)
NewEconomy(initialBalance) ==
    [balance |-> initialBalance, roundProfit |-> 0, finalProfit |-> 0]

RoundCost(hasBooster) == BET_AMOUNT + (IF hasBooster THEN BOOSTER_COST ELSE 0)

\* a check that forgets the side bet
canAffordStakeOnly(e, hasBooster) == e.balance >= BET_AMOUNT

canAffordRound(e, hasBooster) == e.balance >= RoundCost(hasBooster)

\* a round start that keeps the profit fields of the round before
EconomyStartRoundKeep(e, hasBooster) ==
    [e EXCEPT !.balance = e.balance - RoundCost(hasBooster)]

EconomyStartRound(e, hasBooster) ==
    [balance |-> e.balance - RoundCost(hasBooster),
     roundProfit |-> 0, finalProfit |-> 0]

\* a ledger that charges the player for weapon hits only
processDamageEventWeaponOnly(e, ev) ==
    LET r1 == IF ev.attacker = 0 /\ ev.type = "weapon_body"
              THEN e.roundProfit + WEAPON_REWARD ELSE e.roundProfit
        r2 == IF ev.victim = 0 /\ ev.type = "weapon_body"
              THEN r1 - DAMAGE_PENALTY ELSE r1
    IN  [e EXCEPT !.roundProfit = r2]

\* ev is a damage event; the player is the combatant with id 0
processDamageEvent(e, ev) ==
    LET r1 == IF ev.attacker = 0 /\ ev.type = "weapon_body"
              THEN e.roundProfit + WEAPON_REWARD ELSE e.roundProfit
        r2 == IF ev.victim = 0 THEN r1 - DAMAGE_PENALTY ELSE r1
    IN  [e EXCEPT !.roundProfit = r2]

\* roundProfit * WIN_MULTIPLIER (1.5); roundProfit is a multiple of 0.2 FUN
TimesWinMultiplier(x) == (x * 3) \div 2

\* a payout that multiplies a negative profit too
finaliseRoundTimesAny(e, win) ==
    LET profitPart == IF win THEN TimesWinMultiplier(e.roundProfit)
                      ELSE e.roundProfit
        final      == IF win THEN profitPart + WIN_BONUS_NET ELSE profitPart
        bal        == e.balance + final
    IN  [e EXCEPT !.finalProfit = final,
                  !.balance = IF bal < 0 THEN 0 ELSE bal]

\* a payout that does not clamp the balance
finaliseRoundNoClamp(e, win) ==
    LET profitPart == IF win /\ e.roundProfit > 0
                      THEN TimesWinMultiplier(e.roundProfit)
                      ELSE e.roundProfit
        final      == IF win THEN profitPart + WIN_BONUS_NET ELSE profitPart
    IN  [e EXCEPT !.finalProfit = final, !.balance = e.balance + final]

finaliseRound(e, win) ==
    LET profitPart == IF win /\ e.roundProfit > 0
                      THEN TimesWinMultiplier(e.roundProfit)
                      ELSE e.roundProfit
        final      == IF win THEN profitPart + WIN_BONUS_NET ELSE profitPart
        bal        == e.balance + final
    IN  [e EXCEPT !.finalProfit = final,
                  !.balance = IF bal < 0 THEN 0 ELSE bal]

\* ---------------------------------------------------- OutcomeController.ts
WIN_PARAMS ==
    [playerWeaponAssist |-> 5, playerDealBonusDamage |-> 1,
     playerTakeDamageDelta |-> -1, playerSpeedMul |-> 102, targetWin |-> TRUE]

LOSE_PARAMS ==
    [playerWeaponAssist |-> -7, playerDealBonusDamage |-> -1,
     playerTakeDamageDelta |-> 2, playerSpeedMul |-> 98, targetWin |-> FALSE]

NEUTRAL_PARAMS ==
    [playerWeaponAssist |-> 0, playerDealBonusDamage |-> 0,
     playerTakeDamageDelta |-> 0, playerSpeedMul |-> 100, targetWin |-> FALSE]

\* Math.max(0, Math.min(1, p)), in hundredths
setWinProbability(p) == Max(0, Min(100, p))

\* the preset for the draw r, and the RNG state after it
PresetFor(winProb, r) ==
    [params |-> IF Below(r.value, winProb) THEN WIN_PARAMS ELSE LOSE_PARAMS,
     rng |-> r.state]

\* a sampler that draws twice and decides on the second draw
sampleParamsTwice(winProb, s) == PresetFor(winProb, RngNext(RngNext(s).state))

\* one draw; the preset and the RNG state after the draw
sampleParams(winProb, s) == PresetFor(winProb, RngNext(s))

\* ------------------------------------------------------------- Warrior.ts
MAX_HP    == 100
ALPHA_ONE == 20           \* alpha 1, counted in fade steps of FIXED_DT * 3

NewWarrior(i, spd) ==
    [id |-> i, isPlayer |-> (i = 0), hp |-> MAX_HP, alive |-> TRUE,
     dying |-> FALSE, alpha |-> ALPHA_ONE, boosterEffect |-> "none",
     speed |-> spd]

\* damage that removes the combatant at once, without the fade
takeDamageRemove(w, amount) ==
    IF ~w.alive \/ w.dying THEN w
    ELSE IF w.hp - amount <= 0
         THEN [w EXCEPT !.hp = 0, !.dying = TRUE, !.alive = FALSE]
         ELSE [w EXCEPT !.hp = w.hp - amount]

takeDamage(w, amount) ==
    IF ~w.alive \/ w.dying THEN w
    ELSE IF w.hp - amount <= 0
         THEN [w EXCEPT !.hp = 0, !.dying = TRUE]
         ELSE [w EXCEPT !.hp = w.hp - amount]

\* healing without the cap
healHPUncapped(w, amount) == [w EXCEPT !.hp = w.hp + amount]

healHP(w, amount) == [w EXCEPT !.hp = Min(MAX_HP, w.hp + amount)]

\* one fade step of a dying combatant: alpha -= dt * 3
Fade(w) ==
    IF w.dying /\ w.alive
    THEN IF w.alpha - 1 <= 0
         THEN [w EXCEPT !.alpha = 0, !.alive = FALSE]
         ELSE [w EXCEPT !.alpha = w.alpha - 1]
    ELSE w

\* warriors.filter(w => w.alive && !w.dying), as the set of ids
AliveNonDying(ws) == {i \in DOMAIN ws : ws[i].alive /\ ~ws[i].dying}

\* -------------------------------------------------------------- Combat.ts
COOLDOWN_MS == 360        \* 120 ms

\* a key that keeps the order of the pair
pairKeyOrdered(a, b) == <<a, b>>

\* `${Math.min(a.id, b.id)}-${Math.max(a.id, b.id)}`
pairKey(a, b) == <<Min(a, b), Max(a, b)>>

NoCooldowns == [k \in {} |-> 0]

\* a table of cooldowns that is not cleared
KeepCooldowns(cd) == cd

\* clearCooldowns()
ClearCooldowns(cd) == NoCooldowns

CooldownGet(cd, key) == IF key \in DOMAIN cd THEN cd[key] ELSE 0

CooldownSet(cd, key, now) ==
    [k \in DOMAIN cd \cup {key} |-> IF k = key THEN now ELSE cd[k]]

\* the nearest contact, with no overlap required (bestOverlap from -Infinity)
BestContactNearest(g) ==
    IF g.wawb > Max(g.waB, g.wbA)
    THEN [type |-> "weapon_weapon", attackerIsA |-> TRUE]
    ELSE IF g.wbA > g.waB
    THEN [type |-> "weapon_body", attackerIsA |-> FALSE]
    ELSE [type |-> "weapon_body", attackerIsA |-> TRUE]

\* the contact with the largest overlap, scanned in the order waB, wbA, wawb
BestContact(g) ==
    IF g.wawb > Max(g.waB, Max(g.wbA, 0))
    THEN [type |-> "weapon_weapon", attackerIsA |-> TRUE]
    ELSE IF g.wbA > Max(g.waB, 0)
    THEN [type |-> "weapon_body", attackerIsA |-> FALSE]
    ELSE IF g.waB > 0
    THEN [type |-> "weapon_body", attackerIsA |-> TRUE]
    ELSE [type |-> "body_body", attackerIsA |-> TRUE]

\* a bias that credits the player without looking at the overlaps
BiasedNoContact(a, b, g, assist, best, r) ==
    IF Below(r.value, Abs(assist))
    THEN IF assist > 0
         THEN [type |-> "weapon_body", attackerIsA |-> a.isPlayer,
               rng |-> r.state]
         ELSE [type |-> "body_body", attackerIsA |-> TRUE, rng |-> r.state]
    ELSE [type |-> best.type, attackerIsA |-> best.attackerIsA, rng |-> r.state]

\* the bias of the classifier, for the draw r
Biased(a, b, g, assist, best, r) ==
    IF Below(r.value, Abs(assist))
    THEN IF assist > 0
         THEN IF a.isPlayer /\ g.waB > 0
              THEN [type |-> "weapon_body", attackerIsA |-> TRUE, rng |-> r.state]
              ELSE IF b.isPlayer /\ g.wbA > 0
              THEN [type |-> "weapon_body", attackerIsA |-> FALSE, rng |-> r.state]
              ELSE [type |-> best.type, attackerIsA |-> best.attackerIsA,
                    rng |-> r.state]
         ELSE [type |-> "body_body", attackerIsA |-> TRUE, rng |-> r.state]
    ELSE [type |-> best.type, attackerIsA |-> best.attackerIsA, rng |-> r.state]

Classified(a, b, g, params, s, best) ==
    IF (a.isPlayer \/ b.isPlayer) /\ best.type # "weapon_weapon"
    THEN Biased(a, b, g, params.playerWeaponAssist, best, RngNext(s))
    ELSE [type |-> best.type, attackerIsA |-> best.attackerIsA, rng |-> s]

\* g holds the three overlaps: waB (weapon of a on body of b), wbA, wawb.
\* The draw is made only for a contact that involves the player and is not
\* weapon on weapon.
classifyCollision(a, b, g, params, s) ==
    Classified(a, b, g, params, s, BestContact(g))

\* a damage that reads the bonus and the delta as factors
WeaponDamageScaled(attacker, victim, params) ==
    25 * (1 + (IF attacker.isPlayer THEN params.playerDealBonusDamage ELSE 0))
       * (1 + (IF victim.isPlayer THEN Abs(params.playerTakeDamageDelta) ELSE 0))

WeaponDamage(attacker, victim, params) ==
    LET d == Max(1, Min(40, 25 + params.playerDealBonusDamage
                                  * (IF attacker.isPlayer THEN 1 ELSE 0)))
    IN  IF victim.isPlayer THEN Max(1, d + params.playerTakeDamageDelta) ELSE d

\* Math.round(Math.max(1, Math.min(25, 10 + delta * 0.5))), computed in halves
BodyDamage(params) ==
    (Max(2, Min(50, 20 + params.playerTakeDamageDelta)) + 1) \div 2

\* the events of a contact classified as c
EventsOf(a, b, c, params) ==
    CASE c.type = "weapon_body" ->
           IF c.attackerIsA
           THEN <<[attacker |-> a.id, victim |-> b.id, type |-> c.type,
                   damage |-> WeaponDamage(a, b, params)]>>
           ELSE <<[attacker |-> b.id, victim |-> a.id, type |-> c.type,
                   damage |-> WeaponDamage(b, a, params)]>>
      [] c.type = "body_body" ->
           <<[attacker |-> a.id, victim |-> b.id, type |-> c.type,
              damage |-> BodyDamage(params)],
             [attacker |-> b.id, victim |-> a.id, type |-> c.type,
              damage |-> BodyDamage(params)]>>
      [] OTHER -> <<>>

Processed(a, b, now, params, cd, c) ==
    [events |-> EventsOf(a, b, c, params), rng |-> c.rng,
     cd |-> CooldownSet(cd, pairKey(a.id, b.id), now)]

\* the events returned, the RNG state and the cooldown table after the call
processCollision(a, b, g, now, params, s, cd) ==
    IF now - CooldownGet(cd, pairKey(a.id, b.id)) < COOLDOWN_MS
    THEN [events |-> <<>>, rng |-> s, cd |-> cd]
    ELSE Processed(a, b, now, params, cd, classifyCollision(a, b, g, params, s))

\* a glove that arms every hit of the player, whatever touched
GloveHitAny(ev, ws) ==
    ws[ev.attacker].isPlayer /\ ws[ev.attacker].boosterEffect = "glove"

\* the glove of a player that lands a weapon hit
GloveHit(ev, ws) ==
    ws[ev.attacker].isPlayer /\ ws[ev.attacker].boosterEffect = "glove"
    /\ ev.type = "weapon_body"

\* the event as applied: the glove adds 10
AppliedEvent(ev, ws) ==
    IF GloveHit(ev, ws) THEN [ev EXCEPT !.damage = ev.damage + 10] ELSE ev

\* the combatants after one event that no shield took
Damaged(ev, ws) ==
    [i \in DOMAIN ws |->
        IF i = ev.victim
        THEN takeDamage(IF i = ev.attacker /\ GloveHit(ev, ws)
                        THEN [ws[i] EXCEPT !.boosterEffect = "none"] ELSE ws[i],
                        AppliedEvent(ev, ws).damage)
        ELSE IF i = ev.attacker /\ GloveHit(ev, ws)
        THEN [ws[i] EXCEPT !.boosterEffect = "none"]
        ELSE ws[i]]

\* a shield that stops weapon hits only
ShieldedWeaponOnly(ev, ws) ==
    /\ ws[ev.victim].isPlayer /\ ws[ev.victim].boosterEffect = "shield"
    /\ ev.type = "weapon_body"

Shielded(ev, ws) == ws[ev.victim].isPlayer /\ ws[ev.victim].boosterEffect = "shield"

PushApplied(ev, rest) == [rest EXCEPT !.applied = <<ev>> \o rest.applied]

\* applyDamageEvents(events) on the combatants ws: the combatants after the
\* call and the list of applied events
RECURSIVE applyDamageEvents(_, _)
applyDamageEvents(events, ws) ==
    IF events = <<>> THEN [ws |-> ws, applied |-> <<>>]
    ELSE IF Shielded(Head(events), ws)
    THEN applyDamageEvents(Tail(events),
             [ws EXCEPT ![Head(events).victim].boosterEffect = "none"])
    ELSE PushApplied(AppliedEvent(Head(events), ws),
                     applyDamageEvents(Tail(events), Damaged(Head(events), ws)))

\* ------------------------------------------------------------ Boosters.ts
BoosterTypes == {"burger", "glove", "shield"}

NoPickup == [type |-> "none", active |-> FALSE]

\* spawnBooster(type, arena, rng): two draws for the position
spawnBooster(type, s) ==
    [pickup |-> [type |-> type, active |-> TRUE],
     rng |-> RngNext(RngNext(s).state).state]

applyBooster(w, type) ==
    CASE type = "burger" -> healHP(w, 10)
      [] type = "glove"  -> [w EXCEPT !.boosterEffect = "glove"]
      [] type = "shield" -> [w EXCEPT !.boosterEffect = "shield"]
      [] OTHER -> w

\* ------------------------------------------------------ Game.ts, constants
WARRIOR_SPEED == 378      \* px/s, interactive
FIXED_DT      == 50       \* 1/60 s
MAX_STEPS     == 5        \* per update call, doubled with speed-up
SPAWN_SPAN    == 416      \* ARENA_SIZE - 2 * (WARRIOR_RADIUS + 20)
SPAWN_GAP_SQ  == 3025     \* (WARRIOR_RADIUS * 2.5)^2
INITIAL_BALANCE == 10000  \* new Economy(1000)

\* ---------------------------------------------------------- model bounds
MaxClock == 6             \* cooldown periods that pass in one session
MaxAccum == 350           \* largest backlog the accumulator is let to hold
MaxBought == 1            \* boosters bought in one round, pre-selected one included

\* ------------------------------------------------------------- the state
VARIABLES
    state,               \* Game.state
    economy,             \* Game.economy
    winProbability,      \* Game.outcomeCtrl.winProbability
    rng,                 \* Game.rng.state
    outcomeParams,       \* Game.outcomeParams
    warriors,            \* Game.warriors, indexed by id
    boosterPickup,       \* Game.boosterPickup
    pairCooldowns,       \* Combat.pairCooldowns of the interactive process
    selectedMode,        \* Game.selectedMode
    selectedBoosterType, \* Game.selectedBoosterType
    seedOverride,        \* Game.seedOverride
    accumulator,         \* Game.accumulator
    speedupActive,       \* Game.speedupActive
    clock,               \* the last value read from performance.now()
    pc,                  \* position inside Game.update: "idle" or "stepping"
    steps,               \* the local counter of the update call in progress
    op,                  \* the handler that ran last
    rounds,              \* rounds started so far
    finalised,           \* finaliseRound calls since the last round start
    lateTicks,           \* physics steps of the round run after its end condition held
    sampled,             \* sampleParams calls since the last round start
    bought,              \* Game.boostersBought, summed over the types
    sim,                 \* the headless process: the locals of runOneRound
    scene,               \* what the physics of the headless rounds produced: per
                         \* argument list the contacts, tick by tick, and the result
    probe                \* a caller of processCollision: its table, RNG and calls

gameVars == <<state, economy, winProbability, rng, outcomeParams, warriors,
          boosterPickup, pairCooldowns, selectedMode, selectedBoosterType,
          seedOverride, accumulator, speedupActive, clock, pc, steps, op,
          rounds, finalised, lateTicks, sampled, bought>>

headless == <<sim, scene, probe>>

vars == <<gameVars, headless>>

\* ------------------------------------------------------- seeds (Game.ts)
Digits == {"0", "1", "2", "3", "4", "5", "6", "7", "8", "9"}

DigitVal(c) ==
    CASE c = "0" -> 0 [] c = "1" -> 1 [] c = "2" -> 2 [] c = "3" -> 3
      [] c = "4" -> 4 [] c = "5" -> 5 [] c = "6" -> 6 [] c = "7" -> 7
      [] c = "8" -> 8 [] c = "9" -> 9

\* c.charCodeAt(0) on the alphabet used by the seed strings
CharCode(c) == IF c \in Digits THEN 48 + DigitVal(c)
               ELSE CASE c = "a" -> 97 [] c = "b" -> 98 [] c = "-" -> 45
                      [] OTHER -> 120

\* parseInt(s) on an unsigned numeral prefix; -1 stands for NaN
RECURSIVE ParseDigits(_, _)
ParseDigits(str, acc) ==
    IF str = <<>> \/ Head(str) \notin Digits THEN acc
    ELSE ParseDigits(Tail(str), acc * 10 + DigitVal(Head(str)))

parseInt(str) ==
    IF str = <<>> \/ Head(str) \notin Digits THEN -1 ELSE ParseDigits(str, 0)

\* s.split('').reduce((a, c) => a * 31 + c.charCodeAt(0), 0)
RECURSIVE HashFrom(_, _)
HashFrom(str, acc) ==
    IF str = <<>> THEN acc ELSE HashFrom(Tail(str), acc * 31 + CharCode(Head(str)))

\* parseInt(seedOverride) || hash: 0 and NaN are both falsy
SeedOf(str) ==
    IF parseInt(str) > 0 THEN parseInt(str) ELSE HashFrom(str, 0)

\* seed >>> 0 for 0 <= seed < 2^31
ToWord(v) == <<v \div W16, v % W16>>

\* the states Math.random() * 0xffffffff >>> 0 is drawn from
RandomStates == {<<0, 7>>}

\* ---------------------------------------------------------- spawnWarriors
Clash(positions, pos) ==
    \E i \in DOMAIN positions :
        (positions[i][1] - pos[1]) * (positions[i][1] - pos[1])
      + (positions[i][2] - pos[2]) * (positions[i][2] - pos[2])
      < SPAWN_GAP_SQ

\* the do-while of one combatant: draws x and y until the position is free
\* or maxAttempts is reached; positions are whole pixels
RECURSIVE PlaceOne(_, _, _, _)
RECURSIVE PlaceTry(_, _, _, _, _)
PlaceTry(rx, ry, positions, attempts, maxAttempts) ==
    IF attempts + 1 < maxAttempts
       /\ Clash(positions, <<Scaled(rx.value, SPAWN_SPAN),
                             Scaled(ry.value, SPAWN_SPAN)>>)
    THEN PlaceOne(ry.state, positions, attempts + 1, maxAttempts)
    ELSE [pos |-> <<Scaled(rx.value, SPAWN_SPAN), Scaled(ry.value, SPAWN_SPAN)>>,
          rng |-> ry.state]

PlaceSecond(rx, positions, attempts, maxAttempts) ==
    PlaceTry(rx, RngNext(rx.state), positions, attempts, maxAttempts)

PlaceOne(s, positions, attempts, maxAttempts) ==
    PlaceSecond(RngNext(s), positions, attempts, maxAttempts)

RECURSIVE PlaceAll(_, _, _, _)
PlaceNext(count, p, positions, maxAttempts) ==
    PlaceAll(count, p.rng, Append(positions, p.pos), maxAttempts)

PlaceAll(count, s, positions, maxAttempts) ==
    IF Len(positions) = count THEN s
    ELSE PlaceNext(count, PlaceOne(s, positions, 0, maxAttempts), positions,
                   maxAttempts)

\* one rng.angle() per combatant
RECURSIVE DrawN(_, _)
DrawN(s, n) == IF n = 0 THEN s ELSE DrawN(RngNext(s).state, n - 1)

\* the combatants of a new round and the RNG state after spawning them;
\* speeds are in hundredths of a pixel per second
Spawn(count, params, s, baseSpeed, maxAttempts) ==
    [ws  |-> [i \in 0 .. (count - 1) |->
                 NewWarrior(i, IF i = 0 THEN baseSpeed * params.playerSpeedMul
                                        ELSE baseSpeed * 100)],
     rng |-> DrawN(PlaceAll(count, s, <<>>, maxAttempts), count)]

NoWarriors == [i \in {} |-> 0]

\* ------------------------------------------------------ Game.physicsStep
AllPairs == <<<<0, 1>>, <<0, 2>>, <<0, 3>>, <<1, 2>>, <<1, 3>>, <<2, 3>>>>

\* the pairs resolveWarriorCollisions can report for the combatants in A, in
\* the order of its two loops
PairsOf(A) == SelectSeq(AllPairs, LAMBDA q : q[1] \in A /\ q[2] \in A)

Geom(x, y, z) == [waB |-> x, wbA |-> y, wawb |-> z]

\* every list of contacts over the pair list ps with overlaps from geoms
RECURSIVE ContactLists(_, _)
ContactLists(ps, geoms) ==
    IF ps = <<>> THEN {<<>>}
    ELSE LET rest == ContactLists(Tail(ps), geoms)
         IN  rest \cup {<<[a |-> Head(ps)[1], b |-> Head(ps)[2], g |-> g]>> \o r :
                           g \in geoms, r \in rest}

RECURSIVE Ledger(_, _)
Ledger(e, applied) ==
    IF applied = <<>> THEN e
    ELSE Ledger(processDamageEvent(e, Head(applied)), Tail(applied))

PushEvents(raw, applied, rest) ==
    [rest EXCEPT !.raw = raw \o rest.raw, !.applied = applied \o rest.applied]

\* the loop over the pairs of one step: processCollision, applyDamageEvents
\* and Economy.processDamageEvent for each applied event
RECURSIVE ResolveContacts(_, _, _, _, _, _, _)
ResolveApplied(contacts, now, params, r, ap, e) ==
    PushEvents(r.events, ap.applied,
               ResolveContacts(Tail(contacts), now, params, ap.ws, r.rng, r.cd,
                               Ledger(e, ap.applied)))

ResolveOne(contacts, now, params, ws, e, r) ==
    ResolveApplied(contacts, now, params, r, applyDamageEvents(r.events, ws), e)

ResolveContacts(contacts, now, params, ws, s, cd, e) ==
    IF contacts = <<>>
    THEN [ws |-> ws, rng |-> s, cd |-> cd, economy |-> e, raw |-> <<>>,
          applied |-> <<>>]
    ELSE ResolveOne(contacts, now, params, ws, e,
                    processCollision(ws[Head(contacts).a], ws[Head(contacts).b],
                                     Head(contacts).g, now, params, s, cd))

\* checkPickup + applyBooster: the player collects the pickup when touching
CollectPickup(ws, pickup, touching) ==
    IF 0 \in DOMAIN ws /\ ws[0].alive /\ pickup.active /\ touching
    THEN [ws |-> [ws EXCEPT ![0] = applyBooster(ws[0], pickup.type)],
          pickup |-> [pickup EXCEPT !.active = FALSE]]
    ELSE [ws |-> ws, pickup |-> pickup]

FadeAll(ws) == [i \in DOMAIN ws |-> Fade(ws[i])]

\* the end condition of checkRoundEnd and of the headless tick
PlayerAlive(ws) == ws[0].alive /\ ~ws[0].dying
PlayerLast(ws)  == PlayerAlive(ws) /\ Cardinality(AliveNonDying(ws)) = 1
Terminal(ws)    == ~PlayerAlive(ws) \/ PlayerLast(ws)

\* ------------------------------------------------------- input domains
Modes        == {2}
BoosterSel   == {"none", "shield"}
BuyTypes     == {"burger", "glove"}
SeedStrings  == {<<>>}
WinProbs     == {0}
Deltas       == {50, 100}
\* the balance a session is picked up with: the one Game constructs its
\* Economy with, and balances that rounds played earlier leave behind
InitialBalances == {INITIAL_BALANCE, 105}
Geoms        == {Geom(0, 0, 0), Geom(1, 0, 0), Geom(0, 1, 0)}

\* ------------------------------------------------------ Game.ts, handlers
GameInit ==
    /\ state = "ready"
    /\ economy \in {NewEconomy(b) : b \in InitialBalances}
    /\ winProbability = 80
    /\ rng = <<0, 0>>
    /\ outcomeParams = NEUTRAL_PARAMS
    /\ warriors = NoWarriors
    /\ boosterPickup = NoPickup
    /\ pairCooldowns = NoCooldowns
    /\ selectedMode = 4
    /\ selectedBoosterType = "none"
    /\ seedOverride = <<>>
    /\ accumulator = 0
    /\ speedupActive = FALSE
    /\ clock = 0
    /\ pc = "idle"
    /\ steps = 0
    /\ op = "init"
    /\ rounds = 0
    /\ finalised = 0
    /\ lateTicks = 0
    /\ sampled = 0
    /\ bought = 0

History == <<rounds, finalised, lateTicks, sampled>>

\* onModeSelect; the mode buttons are disabled while a round runs
OnModeSelect(mode) ==
    /\ pc = "idle" /\ state # "running"
    /\ selectedMode' = mode
    /\ op' = "mode"
    /\ UNCHANGED <<state, economy, winProbability, rng, outcomeParams, warriors,
                   boosterPickup, pairCooldowns, selectedBoosterType,
                   seedOverride, accumulator, speedupActive, clock, pc, steps,
                   History, bought>>

\* onBoosterSelect; a booster button selects only while no round runs
OnBoosterSelect(b) ==
    /\ pc = "idle" /\ state # "running"
    /\ selectedBoosterType' = b
    /\ op' = "booster"
    /\ UNCHANGED <<state, economy, winProbability, rng, outcomeParams, warriors,
                   boosterPickup, pairCooldowns, selectedMode, seedOverride,
                   accumulator, speedupActive, clock, pc, steps, History, bought>>

\* onSeedChange; the seed input is disabled while a round runs
OnSeedChange(str) ==
    /\ pc = "idle" /\ state # "running"
    /\ seedOverride' = str
    /\ op' = "seed"
    /\ UNCHANGED <<state, economy, winProbability, rng, outcomeParams, warriors,
                   boosterPickup, pairCooldowns, selectedMode,
                   selectedBoosterType, accumulator, speedupActive, clock, pc,
                   steps, History, bought>>

\* a callback that samples the parameters again while a round runs
OnWinProbChangeResample(p) ==
    /\ pc = "idle"
    /\ winProbability' = setWinProbability(p)
    /\ op' = "winprob"
    /\ IF state = "running"
       THEN /\ outcomeParams' = sampleParams(setWinProbability(p), rng).params
            /\ rng' = sampleParams(setWinProbability(p), rng).rng
            /\ sampled' = sampled + 1
       ELSE UNCHANGED <<outcomeParams, rng, sampled>>
    /\ UNCHANGED <<state, economy, warriors, boosterPickup, pairCooldowns,
                   selectedMode, selectedBoosterType, seedOverride, accumulator,
                   speedupActive, clock, pc, steps, rounds, finalised,
                   lateTicks, bought>>

\* onWinProbChange: the callback itself has no guard
OnWinProbChange(p) ==
    /\ pc = "idle"
    /\ winProbability' = setWinProbability(p)
    /\ op' = "winprob"
    /\ UNCHANGED <<state, economy, rng, outcomeParams, warriors, boosterPickup,
                   pairCooldowns, selectedMode, selectedBoosterType,
                   seedOverride, accumulator, speedupActive, clock, pc, steps,
                   History, bought>>

\* onSpeedupToggle; the button is enabled only while a round runs
OnSpeedupToggle ==
    /\ pc = "idle" /\ state = "running"
    /\ speedupActive' = ~speedupActive
    /\ op' = "speedup"
    /\ UNCHANGED <<state, economy, winProbability, rng, outcomeParams, warriors,
                   boosterPickup, pairCooldowns, selectedMode,
                   selectedBoosterType, seedOverride, accumulator, clock, pc,
                   steps, History, bought>>

\* Game.startRound with the RNG state s0 that new Rng(seed) starts from
StartRound(s0) ==
    IF ~canAffordRound(economy, selectedBoosterType # "none")
    THEN UNCHANGED <<state, economy, rng, outcomeParams, warriors,
                     boosterPickup, pairCooldowns, speedupActive, History, bought>>
    ELSE \E sp \in {sampleParams(winProbability, s0)} :
         \E sw \in {Spawn(selectedMode, sp.params, sp.rng, WARRIOR_SPEED, 1000)} :
         \E sb \in {spawnBooster(selectedBoosterType, sw.rng)} :
             /\ outcomeParams' = sp.params
             /\ economy' = EconomyStartRound(economy, selectedBoosterType # "none")
             /\ pairCooldowns' = ClearCooldowns(pairCooldowns)
             /\ warriors' = sw.ws
             /\ boosterPickup' = IF selectedBoosterType # "none"
                                 THEN sb.pickup ELSE boosterPickup
             /\ rng' = IF selectedBoosterType # "none" THEN sb.rng ELSE sw.rng
             /\ speedupActive' = FALSE
             /\ state' = "running"
             /\ rounds' = rounds + 1
             /\ finalised' = 0
             /\ lateTicks' = 0
             /\ sampled' = 1
             /\ bought' = IF selectedBoosterType # "none" THEN 1 ELSE 0

\* a replay that starts the next round at once
ResetToRunning ==
    /\ state' = "running"
    /\ warriors' = NoWarriors
    /\ boosterPickup' = NoPickup
    /\ speedupActive' = FALSE
    /\ bought' = 0
    /\ UNCHANGED <<economy, rng, outcomeParams, pairCooldowns, History>>

\* Game.resetToReady
\* a reset that leaves the pickup of the round before in the arena
ResetToReadyKeepPickup ==
    /\ state' = "ready"
    /\ warriors' = NoWarriors
    /\ boosterPickup' = boosterPickup
    /\ speedupActive' = FALSE
    /\ bought' = 0
    /\ UNCHANGED <<economy, rng, outcomeParams, pairCooldowns, History>>

ResetToReady ==
    /\ state' = "ready"
    /\ warriors' = NoWarriors
    /\ boosterPickup' = NoPickup
    /\ speedupActive' = FALSE
    /\ bought' = 0
    /\ UNCHANGED <<economy, rng, outcomeParams, pairCooldowns, History>>

\* onStart: startRound in 'ready', resetToReady in 'win' and 'lose', nothing
\* in 'running'
OnStart ==
    /\ pc = "idle"
    /\ op' = "start"
    /\ CASE state = "ready" ->
              /\ selectedMode \in Modes \cup {3}
              /\ \E s0 \in (IF seedOverride # <<>>
                            THEN {ToWord(SeedOf(seedOverride))}
                            ELSE RandomStates) : StartRound(s0)
              /\ UNCHANGED accumulator
         [] state \in {"win", "lose"} ->
              /\ ResetToReady
              /\ accumulator' = 0
         [] OTHER ->
              UNCHANGED <<state, economy, rng, outcomeParams, warriors,
                          boosterPickup, pairCooldowns, speedupActive,
                          accumulator, History, bought>>
    /\ UNCHANGED <<winProbability, selectedMode, selectedBoosterType,
                   seedOverride, clock, pc, steps>>

\* a purchase that does not look for a pickup still lying in the arena
OnMidRoundBoosterBuyOver(type) ==
    /\ pc = "idle"
    /\ op' = "buy"
    /\ IF state # "running" \/ economy.balance < BOOSTER_COST
       THEN UNCHANGED <<economy, boosterPickup, rng, bought>>
       ELSE /\ bought < MaxBought + 1
            /\ economy' = [economy EXCEPT !.balance = @ - BOOSTER_COST]
            /\ bought' = bought + 1
            /\ boosterPickup' = spawnBooster(type, rng).pickup
            /\ rng' = spawnBooster(type, rng).rng
    /\ UNCHANGED <<state, winProbability, outcomeParams, warriors,
                   pairCooldowns, selectedMode, selectedBoosterType,
                   seedOverride, accumulator, speedupActive, clock, pc, steps,
                   History>>

\* Game.buyBoosterMidRound
OnMidRoundBoosterBuy(type) ==
    /\ pc = "idle"
    /\ op' = "buy"
    /\ IF state # "running" \/ economy.balance < BOOSTER_COST
          \/ boosterPickup.active
       THEN UNCHANGED <<economy, boosterPickup, rng, bought>>
       ELSE /\ bought < MaxBought
            /\ economy' = [economy EXCEPT !.balance = @ - BOOSTER_COST]
            /\ bought' = bought + 1
            /\ boosterPickup' = spawnBooster(type, rng).pickup
            /\ rng' = spawnBooster(type, rng).rng
    /\ UNCHANGED <<state, winProbability, outcomeParams, warriors,
                   pairCooldowns, selectedMode, selectedBoosterType,
                   seedOverride, accumulator, speedupActive, clock, pc, steps,
                   History>>

\* an update call without the early return for a round that is not running
UpdateBeginAlways(deltaMS) ==
    /\ pc = "idle"
    /\ op' = "update"
    /\ accumulator + deltaMS <= MaxAccum
    /\ accumulator' = accumulator + deltaMS
    /\ steps' = 0
    /\ pc' = "stepping"
    /\ UNCHANGED <<state, economy, winProbability, rng, outcomeParams, warriors,
                   boosterPickup, pairCooldowns, selectedMode,
                   selectedBoosterType, seedOverride, speedupActive, clock,
                   History, bought>>

\* Game.update up to its while loop; a call outside 'running' returns at once
UpdateBegin(deltaMS) ==
    /\ pc = "idle"
    /\ op' = "update"
    /\ IF state # "running"
       THEN UNCHANGED <<accumulator, pc, steps>>
       ELSE /\ accumulator + (IF speedupActive THEN 2 * deltaMS ELSE deltaMS)
                 <= MaxAccum
            /\ accumulator' = accumulator
                 + (IF speedupActive THEN 2 * deltaMS ELSE deltaMS)
            /\ steps' = 0
            /\ pc' = "stepping"
    /\ UNCHANGED <<state, economy, winProbability, rng, outcomeParams, warriors,
                   boosterPickup, pairCooldowns, selectedMode,
                   selectedBoosterType, seedOverride, speedupActive, clock,
                   History, bought>>

MaxSteps == IF speedupActive THEN 2 * MAX_STEPS ELSE MAX_STEPS

\* one iteration of the while loop of Game.update: physicsStep with the
\* contacts reported by resolveWarriorCollisions, the timestamp read from
\* performance.now() and whether the player touches the pickup
PhysicsStep(contacts, now, touching) ==
    /\ pc = "stepping"
    /\ accumulator >= FIXED_DT /\ steps < MaxSteps
    /\ \E r \in {ResolveContacts(contacts, now, outcomeParams, warriors, rng,
                                 pairCooldowns, economy)} :
       \E c \in {CollectPickup(r.ws, boosterPickup, touching)} :
          /\ warriors' = FadeAll(c.ws)
          /\ boosterPickup' = c.pickup
          /\ rng' = r.rng
          /\ pairCooldowns' = r.cd
          /\ economy' = r.economy
    /\ clock' = now
    /\ accumulator' = accumulator - FIXED_DT
    /\ steps' = steps + 1
    /\ lateTicks' = IF 0 \in DOMAIN warriors /\ Terminal(warriors)
                    THEN lateTicks + 1 ELSE lateTicks
    /\ UNCHANGED <<state, winProbability, outcomeParams, selectedMode,
                   selectedBoosterType, seedOverride, speedupActive, pc, op,
                   rounds, finalised, sampled, bought>>

\* a round end decided by the preset instead of the combatants
UpdateEndByPreset ==
    /\ pc = "stepping"
    /\ ~(accumulator >= FIXED_DT /\ steps < MaxSteps)
    /\ pc' = "idle"
    /\ IF 0 \in DOMAIN warriors /\ Terminal(warriors)
       THEN /\ state' = IF outcomeParams.targetWin THEN "win" ELSE "lose"
            /\ economy' = finaliseRound(economy, outcomeParams.targetWin)
            /\ finalised' = finalised + 1
       ELSE UNCHANGED <<state, economy, finalised>>
    /\ UNCHANGED <<winProbability, rng, outcomeParams, warriors, boosterPickup,
                   pairCooldowns, selectedMode, selectedBoosterType,
                   seedOverride, accumulator, speedupActive, clock, steps, op,
                   rounds, lateTicks, sampled, bought>>

\* the end of Game.update: checkRoundEnd
UpdateEnd ==
    /\ pc = "stepping"
    /\ ~(accumulator >= FIXED_DT /\ steps < MaxSteps)
    /\ pc' = "idle"
    /\ IF 0 \in DOMAIN warriors /\ Terminal(warriors)
       THEN /\ state' = IF PlayerLast(warriors) THEN "win" ELSE "lose"
            /\ economy' = finaliseRound(economy, PlayerLast(warriors))
            /\ finalised' = finalised + 1
       ELSE UNCHANGED <<state, economy, finalised>>
    /\ UNCHANGED <<winProbability, rng, outcomeParams, warriors, boosterPickup,
                   pairCooldowns, selectedMode, selectedBoosterType,
                   seedOverride, accumulator, speedupActive, clock, steps, op,
                   rounds, lateTicks, sampled, bought>>

\* the inputs of one physics step.  Time is let to pass only before a step
\* that reports a contact: by nothing, or by one full cooldown.
StepInputs ==
    \E cs \in ContactLists(PairsOf(AliveNonDying(warriors)), Geoms) :
    \E adv \in (IF cs = <<>> THEN {0} ELSE {0, COOLDOWN_MS}) :
    \E touching \in BOOLEAN :
        /\ clock + adv <= MaxClock * COOLDOWN_MS
        /\ (touching => boosterPickup.active)
        /\ PhysicsStep(cs, clock + adv, touching)

GameNext ==
    \/ \E m \in Modes \ {selectedMode} : OnModeSelect(m)
    \/ \E b \in BoosterSel \ {selectedBoosterType} : OnBoosterSelect(b)
    \/ \E p \in WinProbs \ {winProbability} : OnWinProbChange(p)
    \/ OnStart
    \/ OnSpeedupToggle
    \/ \E b \in BuyTypes : OnMidRoundBoosterBuy(b)
    \/ \E d \in Deltas : UpdateBegin(d)
    \/ StepInputs
    \/ UpdateEnd

\* ------------------------------------------------- Simulation.ts (headless)
SIM_WARRIOR_SPEED == 120  \* WARRIOR_SPEED of Simulation.ts
MAX_TICKS == 7200
SIM_BALANCE == 100000     \* new Economy(10000)

\* the locals of runOneRound before its first call; cd is the cooldown table
\* of the headless process, which outlives a call; upsets holds the presets
\* under which a round of the process ended against the preset
SimIdle ==
    [pc |-> "idle", mode |-> 0, winProb |-> 0, hasBooster |-> FALSE,
     seed |-> <<0, 0>>, params |-> NEUTRAL_PARAMS,
     economy |-> NewEconomy(SIM_BALANCE), warriors |-> NoWarriors,
     rng |-> <<0, 0>>, cd |-> NoCooldowns, simTime |-> 0, tick |-> 0,
     win |-> FALSE, finalised |-> 0, lateTicks |-> 0, upsets |-> {}]

\* n fade steps of a dying combatant at once
FadeBy(w, n) ==
    IF w.dying /\ w.alive /\ n > 0
    THEN IF w.alpha - n <= 0
         THEN [w EXCEPT !.alpha = 0, !.alive = FALSE]
         ELSE [w EXCEPT !.alpha = w.alpha - n]
    ELSE w

\* runOneRound up to its tick loop
SimStart(mode, winProb, hasBooster, seed) ==
    /\ sim.pc \in {"idle", "done"}
    /\ \E sp \in {sampleParams(setWinProbability(winProb), seed)} :
       \E sw \in {Spawn(mode, sp.params, sp.rng, SIM_WARRIOR_SPEED, 500)} :
         sim' = [sim EXCEPT
                     !.pc = "running", !.mode = mode, !.winProb = winProb,
                     !.hasBooster = hasBooster, !.seed = seed,
                     !.params = sp.params,
                     !.economy = EconomyStartRound(NewEconomy(SIM_BALANCE),
                                                   hasBooster),
                     !.cd = ClearCooldowns(sim.cd),
                     !.warriors = sw.ws, !.rng = sw.rng,
                     !.simTime = 0, !.tick = 0, !.win = FALSE,
                     !.finalised = 0,
                     !.lateTicks = 0]

\* the tick loop of runOneRound: `quiet` iterations in which no pair is in
\* contact, then one iteration with the contacts cs; the round returns from
\* inside the loop when its end condition holds
SimTick(quiet, cs) ==
    LET t   == sim.tick + quiet + 1
        now == t * FIXED_DT
        ws0 == [i \in DOMAIN sim.warriors |-> FadeBy(sim.warriors[i], quiet)]
    IN  /\ sim.pc = "running"
        /\ t <= MAX_TICKS
        /\ \E r \in {ResolveContacts(cs, now, sim.params, ws0, sim.rng,
                                     sim.cd, sim.economy)} :
           \E ws1 \in {FadeAll(r.ws)} :
           \E end \in {Terminal(ws1)} :
             sim' = [sim EXCEPT
                     !.tick = t, !.simTime = now, !.warriors = ws1,
                     !.rng = r.rng, !.cd = r.cd,
                     !.economy = IF end THEN finaliseRound(r.economy,
                                                          PlayerLast(ws1))
                                 ELSE r.economy,
                     !.win = end /\ PlayerLast(ws1),
                     !.pc = IF end THEN "done" ELSE "running",
                     !.finalised = IF end THEN sim.finalised + 1
                                   ELSE sim.finalised,
                     !.lateTicks = IF Terminal(sim.warriors)
                                   THEN sim.lateTicks + quiet + 1
                                   ELSE sim.lateTicks,
                     !.upsets = IF end /\ sim.params.targetWin # PlayerLast(ws1)
                                THEN sim.upsets \cup {sim.params.targetWin}
                                ELSE sim.upsets]

\* a timeout that returns the loss without closing the ledger
SimTimeoutUnbooked ==
    /\ sim.pc = "running"
    /\ sim.tick = MAX_TICKS
    /\ sim' = [sim EXCEPT !.pc = "done", !.win = FALSE]

\* the code after the loop: the tick budget is spent, the round is lost
SimTimeout ==
    /\ sim.pc = "running"
    /\ sim.tick = MAX_TICKS
    /\ sim' = [sim EXCEPT
                 !.pc = "done", !.win = FALSE,
                 !.economy = finaliseRound(sim.economy, FALSE),
                 !.finalised = sim.finalised + 1,
                 !.upsets = IF sim.params.targetWin
                            THEN sim.upsets \cup {TRUE} ELSE sim.upsets]

\* ---------------------------------------------------- headless, the inputs
MaxTick == 72             \* ticks of a headless round in which contacts are tried

SimModes == {2}
SimWinProbs == {0, 100}
SimSeeds == {<<0, 0>>}
SimGeoms == {Geom(1, 0, 0), Geom(0, 1, 0), Geom(0, 0, 0)}
\* the contact-free iterations before an iteration with contacts: as many as
\* make the next contact fall one tick past a cooldown, or none before the
\* first tick
QuietRuns(tick) == IF tick = 0 THEN {0, 7} ELSE {7}

SimStartInputs ==
    \E m \in SimModes : \E p \in SimWinProbs : \E s \in SimSeeds :
        SimStart(m, p, FALSE, s)

SimTickInputs ==
    \/ \E q \in QuietRuns(sim.tick) :
       \E cs \in ContactLists(PairsOf(AliveNonDying(sim.warriors)), SimGeoms) :
           /\ sim.tick + q + 1 <= MaxTick
           /\ SimTick(q, cs)
    \/ /\ sim.tick < MAX_TICKS
       /\ SimTick(MAX_TICKS - sim.tick - 1, <<>>)

SimNext ==
    \/ SimStartInputs
    \/ SimTickInputs
    \/ SimTimeout

SimInit ==
    /\ sim = SimIdle
    /\ scene = [runs |-> 0, pos |-> 0, fresh |-> TRUE, memo |-> NoCooldowns]
    /\ probe = [cd |-> NoCooldowns, rng |-> <<0, 0>>, calls |-> <<>>]

Init == GameInit /\ SimInit

\* the interactive game and the batch runner are two programs: a behaviour is
\* a session of the one or a process of the other
Next ==
    \/ sim = SimIdle /\ GameNext /\ UNCHANGED headless
    \/ op = "init" /\ SimNext /\ UNCHANGED <<gameVars, scene, probe>>

Spec == Init /\ [][Next]_vars

\* -------------------------------------- headless rounds, run one after another
\* Positions and velocities follow from the arguments of runOneRound alone
\* (the seed places the combatants, the preset sets the speed), so a round
\* that is run again with the same arguments meets the same contacts on the
\* same ticks.  scene.memo keeps, per argument list, the contacts the first
\* round with these arguments met and the result it returned; a later round
\* with the same arguments is fed the same contacts (scene.fresh tells
\* whether the round in progress is the first with its arguments).
MaxHops == 5              \* ticks with a contact in one round
MaxRuns == 3              \* calls of runOneRound in one process

ReplayGeoms == {Geom(1, 0, 0), Geom(0, 1, 0)}

ArgsOf(x) == <<x.mode, x.winProb, x.hasBooster, x.seed>>

\* the inputs the next iteration can get: the recorded one, or else a contact
\* after seven quiet ticks, or no contact until the tick budget is spent
ReplayInputs ==
    IF scene.pos < Len(scene.memo[ArgsOf(sim)].trace)
    THEN {scene.memo[ArgsOf(sim)].trace[scene.pos + 1]}
    ELSE {[quiet |-> 7, cs |-> cs] :
             cs \in IF scene.pos < MaxHops
                    THEN ContactLists(PairsOf(AliveNonDying(sim.warriors)),
                                      ReplayGeoms) \ {<<>>}
                    ELSE {}}
         \cup {[quiet |-> MAX_TICKS - sim.tick - 1, cs |-> <<>>]}

\* the memo after the input in was used and the round reached the locals x
Remember(in, x) ==
    [runs |-> scene.runs, pos |-> scene.pos + 1, fresh |-> scene.fresh,
     memo |-> [scene.memo EXCEPT
                 ![ArgsOf(x)] =
                    [trace  |-> IF scene.pos < Len(@.trace) THEN @.trace
                                ELSE Append(@.trace, in),
                     result |-> IF @.result = <<>> /\ x.pc = "done"
                                THEN <<x.win, x.economy.finalProfit>>
                                ELSE @.result]]]

ReplayStart(mode, winProb, hasBooster, seed) ==
    /\ scene.runs < MaxRuns
    /\ SimStart(mode, winProb, hasBooster, seed)
    /\ scene' = [runs |-> scene.runs + 1, pos |-> 0,
                 fresh |-> ArgsOf(sim') \notin DOMAIN scene.memo,
                 memo |-> IF ArgsOf(sim') \in DOMAIN scene.memo THEN scene.memo
                          ELSE [k \in DOMAIN scene.memo \cup {ArgsOf(sim')} |->
                                  IF k \in DOMAIN scene.memo THEN scene.memo[k]
                                  ELSE [trace |-> <<>>, result |-> <<>>]]]

ReplayTick ==
    /\ sim.pc = "running" /\ sim.tick < MAX_TICKS
    /\ \E in \in ReplayInputs :
          /\ SimTick(in.quiet, in.cs)
          /\ scene' = Remember(in, sim')

ReplayTimeout ==
    /\ SimTimeout
    /\ scene' = [scene EXCEPT
                   !.memo[ArgsOf(sim)].result =
                       IF @ = <<>> THEN <<sim'.win, sim'.economy.finalProfit>>
                       ELSE @]

ReplayNext ==
    \/ \E m \in SimModes : \E p \in SimWinProbs : \E s \in SimSeeds :
          ReplayStart(m, p, FALSE, s) /\ UNCHANGED <<gameVars, probe>>
    \/ ReplayTick /\ UNCHANGED <<gameVars, probe>>
    \/ ReplayTimeout /\ UNCHANGED <<gameVars, probe>>

ReplaySpec == Init /\ [][ReplayNext]_vars

\* ------------------------------ the two drivers, side by side on one seed
MaxPairTicks == 10        \* physics steps the two drivers take together

PairSeeds == {<<"7">>}

\* the contacts of cs between combatants that ws still has alive and not dying
ContactsAmong(cs, ws) ==
    SelectSeq(cs, LAMBDA c : c.a \in AliveNonDying(ws) /\ c.b \in AliveNonDying(ws))

\* the round is started in the game with the seed typed in and no booster,
\* and runOneRound is called with the same mode, win probability and seed
PairStart ==
    /\ state = "ready" /\ sim.pc = "idle"
    /\ seedOverride # <<>> /\ selectedBoosterType = "none"
    /\ OnStart
    /\ SimStart(selectedMode, winProbability, FALSE,
                ToWord(SeedOf(seedOverride)))

\* one physics step of the game and one tick of the headless round on the
\* same contacts; the game reads its timestamp from performance.now()
PairStep ==
    \E cs \in ContactLists(PairsOf(AliveNonDying(warriors)), Geoms) :
    \E adv \in {0, COOLDOWN_MS} :
        /\ sim.tick < MaxPairTicks
        /\ clock + adv <= MaxClock * COOLDOWN_MS
        /\ PhysicsStep(cs, clock + adv, FALSE)
        /\ IF sim.pc = "running"
           THEN SimTick(0, ContactsAmong(cs, sim.warriors))
           ELSE UNCHANGED sim

PairNext ==
    \/ \E m \in Modes \ {selectedMode} : OnModeSelect(m) /\ UNCHANGED headless
    \/ \E str \in PairSeeds \ {seedOverride} :
          OnSeedChange(str) /\ UNCHANGED headless
    \/ PairStart /\ UNCHANGED <<scene, probe>>
    \/ state = "running" /\ (\E d \in Deltas : UpdateBegin(d)) /\ UNCHANGED headless
    \/ PairStep /\ UNCHANGED <<scene, probe>>
    \/ UpdateEnd /\ UNCHANGED headless

PairSpec == Init /\ [][PairNext]_vars

\* ------------------------------------------- processCollision, called alone
MaxCalls == 3             \* calls and clears made by the caller

ProbeIds == {0, 1}
ProbeGeoms == {Geom(1, 0, 0), Geom(0, 0, 1)}
ProbeTimes == {0, 200, COOLDOWN_MS, 600}

\* one call of processCollision(pair, now, params, rng) on fresh combatants
\* a and b, in either order, at any timestamp
CollideCall(a, b, g, now) ==
    /\ Len(probe.calls) < MaxCalls
    /\ \E r \in {processCollision(NewWarrior(a, 100 * WARRIOR_SPEED),
                                  NewWarrior(b, 100 * WARRIOR_SPEED), g, now,
                                  WIN_PARAMS, probe.rng, probe.cd)} :
         probe' = [cd |-> r.cd, rng |-> r.rng,
                   calls |-> Append(probe.calls,
                                    [clear |-> FALSE, a |-> a, b |-> b,
                                     now |-> now,
                                     hit |-> r.events # <<>>])]

\* one call of clearCooldowns()
ClearCall ==
    /\ Len(probe.calls) < MaxCalls
    /\ probe' = [probe EXCEPT
                   !.cd = ClearCooldowns(probe.cd),
                   !.calls = Append(probe.calls,
                                    [clear |-> TRUE, a |-> 0, b |-> 0,
                                     now |-> 0, hit |-> FALSE])]

CooldownNext ==
    \/ \E a \in ProbeIds : \E b \in ProbeIds \ {a} :
       \E g \in ProbeGeoms : \E now \in ProbeTimes :
           CollideCall(a, b, g, now) /\ UNCHANGED <<gameVars, sim, scene>>
    \/ ClearCall /\ UNCHANGED <<gameVars, sim, scene>>

CooldownSpec == Init /\ [][CooldownNext]_vars

\* ------------------------- one contact at a time: the loop body of a step
MaxBenchCalls == 2        \* contacts handled on one set of combatants
MaxBenchPickups == 1      \* pickups collected by the player

\* a value of the OutcomeParams interface that is none of the presets
STRONG_PARAMS ==
    [playerWeaponAssist |-> 100, playerDealBonusDamage |-> 20,
     playerTakeDamageDelta |-> 16, playerSpeedMul |-> 100, targetWin |-> TRUE]

\* three combatants of a running round, the player first, and the ledger of
\* the round; probe.call is the last call: what it was given, what
\* processCollision returned and what applyDamageEvents applied
BenchInit ==
    /\ GameInit
    /\ economy = NewEconomy(INITIAL_BALANCE)
    /\ sim = SimIdle
    /\ scene = [runs |-> 0, pos |-> 0, fresh |-> TRUE, memo |-> NoCooldowns]
    /\ probe = [ws |-> [i \in 0..2 |-> NewWarrior(i, 100 * WARRIOR_SPEED)],
                economy |-> EconomyStartRound(NewEconomy(INITIAL_BALANCE), FALSE),
                calls |-> 0, pickups |-> 0, negated |-> 0,
                call |-> [op |-> "new", a |-> 0, b |-> 0, g |-> Geom(0, 0, 0),
                          params |-> NEUTRAL_PARAMS, s |-> <<0, 0>>,
                          events |-> <<>>, applied |-> <<>>, type |-> "none",
                          pre |-> [i \in 0..2 |->
                                      NewWarrior(i, 100 * WARRIOR_SPEED)]]]

\* processCollision on a pair out of its cooldown, applyDamageEvents on the
\* events returned, processDamageEvent on the events applied
BenchCollide(a, b, g, params, s) ==
    /\ probe.calls < MaxBenchCalls
    /\ {a, b} \subseteq AliveNonDying(probe.ws)
    /\ \E r \in {processCollision(probe.ws[a], probe.ws[b], g, COOLDOWN_MS,
                                  params, s, NoCooldowns)} :
       \E ap \in {applyDamageEvents(r.events, probe.ws)} :
           probe' = [ws |-> ap.ws,
                     economy |-> Ledger(probe.economy, ap.applied),
                     calls |-> probe.calls + 1, pickups |-> probe.pickups,
                     negated |-> probe.negated + Len(r.events) - Len(ap.applied),
                     call |-> [op |-> "collide", a |-> a, b |-> b, g |-> g,
                               params |-> params, s |-> s, events |-> r.events,
                               applied |-> ap.applied, type |-> "none",
                               pre |-> probe.ws]]

\* checkPickup collects the pickup spawned at the round start, before the
\* first contact: applyBooster(player, booster)
BenchPickup(type) ==
    /\ probe.pickups < MaxBenchPickups
    /\ probe.calls = 0
    /\ probe.ws[0].alive
    /\ probe' = [probe EXCEPT
                   !.ws[0] = applyBooster(probe.ws[0], type),
                   !.pickups = probe.pickups + 1,
                   !.call = [op |-> "pickup", a |-> 0, b |-> 0,
                             g |-> Geom(0, 0, 0), params |-> NEUTRAL_PARAMS,
                             s |-> <<0, 0>>, events |-> <<>>,
                             applied |-> <<>>, type |-> type,
                             pre |-> probe.ws]]

\* The pair (a, b) has the player first, the player second or no player. The
\* overlaps are those of one weapon on a body, of both weapons on a body and
\* of no weapon in reach. The Rng state before the draw
\* of the classifier is <<0, 0>>, whose draw is 0.728, or <<0, 45>>, whose
\* draw is 0.029; a pair without the player makes no draw.
BenchNext ==
    \/ \E q \in {<<0, 1>>, <<1, 0>>, <<1, 2>>} :
       \E g \in {Geom(1, 0, -1), Geom(0, 1, 0), Geom(1, 2, 0), Geom(0, 0, 0)} :
       \E params \in {WIN_PARAMS, LOSE_PARAMS, STRONG_PARAMS} :
       \E s \in IF 0 \in {q[1], q[2]} THEN {<<0, 0>>, <<0, 45>>} ELSE {<<0, 0>>} :
           BenchCollide(q[1], q[2], g, params, s)
           /\ UNCHANGED <<gameVars, sim, scene>>
    \/ \E type \in BoosterTypes :
           BenchPickup(type) /\ UNCHANGED <<gameVars, sim, scene>>

BenchSpec == BenchInit /\ [][BenchNext]_vars

\* ------------------------------------------------------------------ claims

\* ------------------------------------------ startRound's seed and two Rngs
\* The seed field is typed in, startRound parses it and builds the round's
\* Rng; a second Rng is built from the seed the first one reports, and both
\* are drawn from, each at its own pace.
MaxDraws == 4             \* draws taken from each of the two generators

SeedInit ==
    /\ GameInit
    /\ economy = NewEconomy(INITIAL_BALANCE)
    /\ sim = SimIdle
    /\ scene = [runs |-> 0, pos |-> 0, fresh |-> TRUE, memo |-> NoCooldowns]
    /\ probe = [made |-> FALSE, str |-> <<>>, arg |-> -1, seed |-> <<0, 0>>,
                gen |-> [i \in 1..2 |-> [state |-> <<0, 0>>, vals |-> <<>>]],
                asked |-> 80, smp |-> <<>>]

\* const seed = ...; this.rng = new Rng(seed): arg is the argument of the
\* constructor, -1 for undefined
NewRng ==
    /\ ~probe.made
    /\ \E arg \in {IF seedOverride # <<>> THEN SeedOf(seedOverride) ELSE -1} :
       \E s0 \in (IF arg # -1 THEN {ToWord(arg)}
                  ELSE {<<0, 7>>, <<65535, 65535>>}) :
          probe' = [probe EXCEPT
                      !.made = TRUE, !.str = seedOverride, !.arg = arg,
                      !.seed = s0,
                      !.gen = [i \in 1..2 |-> [state |-> s0, vals |-> <<>>]]]

\* rng.next() on generator i
Draw(i) ==
    /\ probe.made
    /\ Len(probe.gen[i].vals) < MaxDraws
    /\ \E r \in {RngNext(probe.gen[i].state)} :
          probe' = [probe EXCEPT
                      !.gen[i] = [state |-> r.state,
                                  vals |-> Append(probe.gen[i].vals, r.value)]]

\* outcomeCtrl.sampleParams(rng) on generator i; smp keeps the last call:
\* the probability in force, the generator before and after, the preset
Sample(i) ==
    /\ probe.made
    /\ Len(probe.gen[i].vals) < MaxDraws
    /\ \E sp \in {sampleParams(winProbability, probe.gen[i].state)} :
          probe' = [probe EXCEPT
                      !.gen[i] = [state |-> sp.rng,
                                  vals |-> Append(probe.gen[i].vals,
                                                  RngNext(probe.gen[i].state).value)],
                      !.smp = <<[p |-> winProbability,
                                 before |-> probe.gen[i].state,
                                 after |-> sp.rng, out |-> sp.params]>>]

SeedSpec ==
    /\ SeedInit
    /\ [][\/ /\ ~probe.made
             /\ \E str \in {<<"0">>, <<"7">>, <<"1", "2">>, <<"7", "a">>,
                            <<"a", "b">>, <<>>} \ {seedOverride} :
                    OnSeedChange(str)
             /\ UNCHANGED <<sim, scene, probe>>
          \/ NewRng /\ UNCHANGED <<gameVars, sim, scene>>
          \/ \E i \in 1..2 : Draw(i) /\ UNCHANGED <<gameVars, sim, scene>>
          \/ \E p \in {-50, 0, 40, 100, 150} \ {probe.asked} :
                /\ OnWinProbChange(p)
                /\ probe' = [probe EXCEPT !.asked = p]
                /\ UNCHANGED <<sim, scene>>
          \/ \E i \in 1..2 : Sample(i) /\ UNCHANGED <<gameVars, sim, scene>>]_vars

\* C1: in every state of an interactive session (round starts, mid-round
\* booster purchases, damage events, round ends, replays) the balance is at
\* least zero.
C1_BalanceNonNegative == economy.balance >= 0

\* a round was lost with a final profit that would have taken the balance
\* below zero
C1_Witness ==
    /\ state = "lose" /\ economy.balance = 0 /\ economy.finalProfit < 0

\* C3: a start request made when the balance is below the stake plus the side
\* bet of the pre-selected booster changes neither the ledger, nor the round
\* state, nor the outcome parameters, the RNG, the cooldown table or the
\* combatants; the state stays 'ready'.
C3_NoFundsNoStart ==
    [][(/\ pc = "idle" /\ op' = "start" /\ state = "ready"
        /\ economy.balance < BET_AMOUNT
              + (IF selectedBoosterType # "none" THEN BOOSTER_COST ELSE 0))
       => /\ state' = "ready"
          /\ UNCHANGED <<economy, outcomeParams, rng, pairCooldowns, warriors,
                         boosterPickup, rounds>>]_vars

\* a start request was turned down for a balance that covers the stake but
\* not the side bet
C3_Witness ==
    /\ op = "start" /\ state = "ready" /\ rounds = 0
    /\ selectedBoosterType # "none"
    /\ economy.balance >= BET_AMOUNT
    /\ economy.balance < BET_AMOUNT + BOOSTER_COST

\* C4: the round state changes only along ready -> running, running -> win,
\* running -> lose, win -> ready and lose -> ready; a start request while
\* 'running' changes nothing, a start request in 'win' or 'lose' leads to
\* 'ready' without starting a round, and an update call outside 'running'
\* leaves the state alone.
C4_RoundStates ==
    [][/\ (state' # state
             => <<state, state'>> \in
                  {<<"ready", "running">>, <<"running", "win">>,
                   <<"running", "lose">>, <<"win", "ready">>,
                   <<"lose", "ready">>})
       /\ (pc = "idle" /\ op' = "start" /\ state = "running"
             => UNCHANGED <<state, economy, winProbability, rng, outcomeParams,
                            warriors, boosterPickup, pairCooldowns,
                            accumulator, speedupActive, rounds>>)
       /\ (pc = "idle" /\ op' = "start" /\ state \in {"win", "lose"}
             => state' = "ready" /\ UNCHANGED <<economy, rounds>>)
       /\ ((op' = "update" \/ pc = "stepping") /\ state # "running"
             => state' = state)]_vars

\* a finished round was left by a start request, back to 'ready'
C4_Witness ==
    /\ state = "ready" /\ op = "start" /\ rounds = 1 /\ finalised = 1

\* C7: the outcome parameters are sampled once, at the start of the round,
\* and no step taken while the round runs changes them or samples again, a
\* change of the win probability included.
C7_ParamsHeld ==
    [][/\ (state = "ready" /\ state' = "running"
             => sampled' = 1 /\ outcomeParams' \in {WIN_PARAMS, LOSE_PARAMS})
       /\ (state = "running"
             => outcomeParams' = outcomeParams /\ sampled' = sampled)]_vars

\* the win probability was set to zero during a round that keeps its
\* win-biased parameters
C7_Witness ==
    /\ state = "running" /\ op = "winprob" /\ winProbability = 0
    /\ outcomeParams = WIN_PARAMS /\ sampled = 1

\* C2: every round that ends in a win, interactive or headless, has a final
\* profit above zero, whatever damage events made up its round profit.
C2_WinPays ==
    /\ (state = "win" => economy.finalProfit > 0)
    /\ (sim.pc = "done" /\ sim.win => sim.economy.finalProfit > 0)

C8_PresetDoesNotDecide ==
    /\ (state \in {"win", "lose"}
          => (state = "win") = PlayerLast(warriors))
    /\ (sim.pc = "done"
          => sim.win = (PlayerLast(sim.warriors) /\ sim.finalised = 1))
    /\ (sim.pc = "done" /\ sim.tick < MAX_TICKS => Terminal(sim.warriors))

\* in one headless process a round with the win-biased preset was lost and a
\* round with the lose-biased preset was won
C8_Witness ==
    /\ sim.pc = "done" /\ sim.upsets = {TRUE, FALSE}

\* C6: of two calls of processCollision on the same unordered pair of ids,
\* with timestamps less than a cooldown (120 ms) apart and no clearCooldowns
\* between them, at most one returns events, in whichever order each call
\* names the pair.
C6_OneHitPerCooldown ==
    \A i \in DOMAIN probe.calls : \A j \in DOMAIN probe.calls :
        (/\ i < j
         /\ ~probe.calls[i].clear /\ ~probe.calls[j].clear
         /\ {probe.calls[i].a, probe.calls[i].b}
              = {probe.calls[j].a, probe.calls[j].b}
         /\ Abs(probe.calls[i].now - probe.calls[j].now) < COOLDOWN_MS
         /\ \A k \in DOMAIN probe.calls : i < k /\ k < j => ~probe.calls[k].clear)
        => ~(probe.calls[i].hit /\ probe.calls[j].hit)

\* a call that returned events was followed, less than a cooldown later and
\* with the pair named in the other order, by a call that returned none
C6_Witness ==
    /\ Len(probe.calls) >= 2
    /\ probe.calls[1].hit /\ ~probe.calls[2].clear /\ ~probe.calls[2].hit
    /\ probe.calls[1].a = probe.calls[2].b /\ probe.calls[1].b = probe.calls[2].a
    /\ probe.calls[2].now > probe.calls[1].now
    /\ probe.calls[2].now - probe.calls[1].now < COOLDOWN_MS

\* C9: a call of runOneRound returns the win flag and the final profit that
\* the first call with the same mode, win probability, side-bet flag and seed
\* returned in this process, whatever calls were made in between.
C9_SameResult ==
    (/\ sim.pc = "done"
     /\ ArgsOf(sim) \in DOMAIN scene.memo
     /\ scene.memo[ArgsOf(sim)].result # <<>>)
    => scene.memo[ArgsOf(sim)].result = <<sim.win, sim.economy.finalProfit>>

\* the third round of a process, run with the arguments of one of the two
\* rounds before it, the other having had other arguments, was won again
C9_Witness ==
    /\ sim.pc = "done" /\ sim.win /\ scene.runs = 3 /\ ~scene.fresh
    /\ Cardinality(DOMAIN scene.memo) = 2
    /\ sim.cd # NoCooldowns

\* C10: started from the same seed, mode and win probability with no booster
\* and stepped on the same contacts, the game and the headless round have
\* drawn the same numbers, dealt the same damage and booked the same round
\* profit after every step, and end with the same result, whatever
\* timestamps the game reads.
C10_SideBySide ==
    sim.pc # "idle"
    => /\ outcomeParams = sim.params
       /\ rng = sim.rng
       /\ \A i \in DOMAIN warriors :
             /\ warriors[i].hp = sim.warriors[i].hp
             /\ warriors[i].dying = sim.warriors[i].dying
       /\ economy.roundProfit = sim.economy.roundProfit
       /\ (state \in {"win", "lose"} /\ sim.pc = "done"
             => (state = "win") = sim.win)

C13_DamageEventLedger ==
    [][probe'.call.op = "collide" =>
           LET evs  == {probe'.call.applied[i] : i \in DOMAIN probe'.call.applied}
               gain == IF \E ev \in evs : ev.attacker = 0 /\ ev.type = "weapon_body"
                       THEN WEAPON_REWARD ELSE 0
               loss == IF \E ev \in evs : ev.victim = 0
                       THEN DAMAGE_PENALTY ELSE 0
           IN  /\ probe'.economy.roundProfit
                      = probe.economy.roundProfit + gain - loss
               /\ probe'.economy.balance = probe.economy.balance
               /\ probe'.economy.finalProfit = probe.economy.finalProfit
               /\ (\A ev \in evs : ev.attacker # 0 /\ ev.victim # 0)
                      => probe'.economy = probe.economy]_vars

\* a body contact has cost the player the penalty, after a weapon hit that
\* earned the reward
C13_Witness ==
    /\ probe.call.op = "collide"
    /\ Len(probe.call.applied) = 2
    /\ probe.call.applied[1].type = "body_body"
    /\ probe.economy.roundProfit = WEAPON_REWARD - DAMAGE_PENALTY
    /\ probe.ws[1].hp < MAX_HP - 30

\* C14: a weapon hit dealt by the player changes the round profit by +0.8 FUN
\* and each damage event received by the player changes it by -1.0 FUN.
C14_ReadmeRates ==
    [][probe'.call.op = "collide" =>
           LET evs    == {probe'.call.applied[i] : i \in DOMAIN probe'.call.applied}
               change == probe'.economy.roundProfit - probe.economy.roundProfit
           IN  /\ (\E ev \in evs : ev.attacker = 0 /\ ev.type = "weapon_body")
                      => change = 8
               /\ (\E ev \in evs : ev.victim = 0) => change = -10]_vars

\* C15: whenever a round enters 'running', the first and every later one,
\* roundProfit and finalProfit are 0 and the balance is the balance before the
\* start minus 10 FUN, or minus 11 FUN when a booster was pre-selected.
C15_FreshLedger ==
    [][state # "running" /\ state' = "running" =>
           /\ economy'.roundProfit = 0
           /\ economy'.finalProfit = 0
           /\ economy'.balance =
                  economy.balance
                  - (IF selectedBoosterType # "none" THEN 110 ELSE 100)]_vars

\* the second round of a session has just started, with the booster paid for
C15_Witness ==
    /\ state = "running"
    /\ op = "start"
    /\ rounds = 2
    /\ bought = 1
    /\ economy.roundProfit = 0
    /\ economy.finalProfit = 0

\* C11: with the parameters that sampleParams returns, every weapon-hits-body
\* event returned by processCollision has damage in 1..40 and every
\* body-to-body event has damage in 1..25.
C11_DamageBounds ==
    (/\ probe.call.op = "collide"
     /\ probe.call.params \in {sampleParams(wp, <<0, 0>>).params : wp \in {0, 100}})
    => \A i \in DOMAIN probe.call.events :
           LET ev == probe.call.events[i]
           IN  /\ ev.type = "weapon_body" => ev.damage \in 1..40
               /\ ev.type = "body_body" => ev.damage \in 1..25

\* the largest damage of the presets: a weapon hit on the player in a
\* lose-biased round
C11_Witness ==
    /\ probe.call.op = "collide"
    /\ probe.call.params = sampleParams(0, <<0, 0>>).params
    /\ Len(probe.call.events) = 1
    /\ probe.call.events[1].type = "weapon_body"
    /\ probe.call.events[1].victim = 0
    /\ probe.call.events[1].damage = 27

\* C16: for every pair and every OutcomeParams value, the damage of a
\* weapon-hits-body event is 25, plus the damage bonus iff the attacker is the
\* player, plus the damage delta iff the victim is the player, clamped to
\* 1..40; between two non-player combatants it is 25.
C16_WeaponDamageClamped ==
    probe.call.op = "collide" =>
        \A i \in DOMAIN probe.call.events :
            LET ev == probe.call.events[i]
                pa == probe.call.params
                raw == 25
                       + (IF ev.attacker = 0 THEN pa.playerDealBonusDamage ELSE 0)
                       + (IF ev.victim = 0 THEN pa.playerTakeDamageDelta ELSE 0)
            IN  ev.type = "weapon_body" =>
                    /\ ev.damage = Max(1, Min(40, raw))
                    /\ ev.attacker # 0 /\ ev.victim # 0 => ev.damage = 25

\* C17: in a body-to-body contact the event whose victim is not the player,
\* and both events of a contact between two non-player combatants, carry the
\* base damage 10 under every preset.
C17_BodyDeltaOnPlayerOnly ==
    (/\ probe.call.op = "collide"
     /\ probe.call.params \in {WIN_PARAMS, LOSE_PARAMS})
    => \A i \in DOMAIN probe.call.events :
           LET ev == probe.call.events[i]
           IN  ev.type = "body_body" /\ ev.victim # 0 => ev.damage = 10

\* C18, as stated: when only the overlap of A's weapon with B's body is
\* positive, the contact is a weapon hit by A for every preset, every draw
\* and whichever of A and B is the player.
C18_OnlyWeaponOfA ==
    (/\ probe.call.op = "collide"
     /\ probe.call.g.waB > 0 /\ probe.call.g.wbA <= 0 /\ probe.call.g.wawb <= 0)
    => /\ Len(probe.call.events) = 1
       /\ probe.call.events[1].type = "weapon_body"
       /\ probe.call.events[1].attacker = probe.call.a

\* C18, amended: the same, except for a pair with the player under a negative
\* weapon assist when the draw is below its magnitude: that contact is
\* body-to-body.
C18_OnlyWeaponOfAUnlessNudged ==
    (/\ probe.call.op = "collide"
     /\ probe.call.g.waB > 0 /\ probe.call.g.wbA <= 0 /\ probe.call.g.wawb <= 0)
    => IF /\ 0 \in {probe.call.a, probe.call.b}
          /\ probe.call.params.playerWeaponAssist < 0
          /\ Below(RngNext(probe.call.s).value,
                   -probe.call.params.playerWeaponAssist)
       THEN /\ Len(probe.call.events) = 2
            /\ \A i \in 1..2 : probe.call.events[i].type = "body_body"
       ELSE /\ Len(probe.call.events) = 1
            /\ probe.call.events[1].type = "weapon_body"
            /\ probe.call.events[1].attacker = probe.call.a

\* B is the player, the preset is win-biased and the draw is below the
\* assist: the hit still goes to A
C18_Witness ==
    /\ probe.call.op = "collide"
    /\ probe.call.g.waB > 0 /\ probe.call.g.wbA <= 0 /\ probe.call.g.wawb <= 0
    /\ probe.call.b = 0
    /\ probe.call.params = WIN_PARAMS
    /\ Below(RngNext(probe.call.s).value, WIN_PARAMS.playerWeaponAssist)
    /\ Len(probe.call.events) = 1
    /\ probe.call.events[1].attacker = probe.call.a
    /\ probe.call.events[1].victim = 0

\* C19: a weapon-hits-body event returned by processCollision has an attacker
\* whose weapon circle overlaps the victim's body circle by more than zero,
\* for every weapon assist and every draw.
C19_WeaponTouches ==
    probe.call.op = "collide" =>
        \A i \in DOMAIN probe.call.events :
            LET ev == probe.call.events[i]
            IN  ev.type = "weapon_body" =>
                    IF ev.attacker = probe.call.a
                    THEN probe.call.g.waB > 0
                    ELSE probe.call.g.wbA > 0

\* the bias moves the hit from the larger overlap to the player's weapon,
\* which touches too
C19_Witness ==
    /\ probe.call.op = "collide"
    /\ probe.call.a = 0
    /\ probe.call.g.wbA > probe.call.g.waB
    /\ probe.call.g.waB > 0
    /\ probe.call.params.playerWeaponAssist > 0
    /\ Len(probe.call.events) = 1
    /\ probe.call.events[1].type = "weapon_body"
    /\ probe.call.events[1].attacker = 0

\* C20: with a shield armed, the next damage event whose victim is the
\* player, of either type, leaves the player's health as it was, does not
\* reach the ledger and sets the effect to 'none'; the damage event after
\* that one is applied in full.
C20_ShieldTakesOne ==
    [][(/\ probe'.call.op = "collide"
        /\ \E i \in DOMAIN probe'.call.events : probe'.call.events[i].victim = 0)
       => LET hit == CHOOSE ev \in {probe'.call.events[i] :
                                       i \in DOMAIN probe'.call.events} :
                         ev.victim = 0
              inApplied == \E j \in DOMAIN probe'.call.applied :
                               probe'.call.applied[j].victim = 0
              negatedBefore ==
                  /\ probe.call.op = "collide"
                  /\ probe.call.pre[0].boosterEffect = "shield"
                  /\ \E i \in DOMAIN probe.call.events :
                         probe.call.events[i].victim = 0
          IN  /\ probe.ws[0].boosterEffect = "shield" =>
                     /\ probe'.ws[0].hp = probe.ws[0].hp
                     /\ probe'.ws[0].boosterEffect = "none"
                     /\ ~inApplied
                     /\ probe'.economy = probe.economy
              /\ negatedBefore =>
                     /\ probe'.ws[0].hp = Max(0, probe.ws[0].hp - hit.damage)
                     /\ inApplied
                     /\ probe'.economy.roundProfit =
                            probe.economy.roundProfit - DAMAGE_PENALTY]_vars

\* the shield took one event and the event after it has hurt the player
C20_Witness ==
    /\ probe.call.op = "collide"
    /\ probe.negated = 1
    /\ probe.calls = 2
    /\ probe.call.pre[0].boosterEffect = "none"
    /\ probe.call.pre[0].hp = MAX_HP
    /\ probe.ws[0].hp < MAX_HP
    /\ probe.economy.roundProfit = -DAMAGE_PENALTY
\* C21: with the glove armed, the first weapon-hits-body event of a call whose
\* attacker is the player is applied with 10 more damage and disarms the
\* glove; every other event is applied with its own damage, a call without
\* such an event leaves the glove armed, and with the glove disarmed no event
\* is raised.
C21_GloveAddsTenOnce ==
    [][LET GlovedEvent(ev) == ev.type = "weapon_body" /\ ev.attacker = 0 IN
       probe'.call.op = "collide" /\ probe'.calls = probe.calls + 1
       /\ probe'.call.pre[0].boosterEffect \in {"glove", "none"}
       => /\ Len(probe'.call.applied) = Len(probe'.call.events)
          /\ \A k \in 1..Len(probe'.call.events) :
                probe'.call.applied[k].damage =
                    probe'.call.events[k].damage
                    + (IF /\ probe'.call.pre[0].boosterEffect = "glove"
                          /\ GlovedEvent(probe'.call.events[k])
                          /\ \A j \in 1..(k - 1) :
                                ~GlovedEvent(probe'.call.events[j])
                       THEN 10 ELSE 0)
          /\ probe'.ws[0].boosterEffect =
                IF \E k \in 1..Len(probe'.call.events) :
                       GlovedEvent(probe'.call.events[k])
                THEN "none" ELSE probe'.call.pre[0].boosterEffect]_vars

\* the player was hit with the glove armed, which left it armed, and the
\* player's next weapon hit carried the 10 and disarmed it
C21_Witness ==
    LET GlovedEvent(ev) == ev.type = "weapon_body" /\ ev.attacker = 0 IN
    /\ probe.calls = 2 /\ probe.call.op = "collide"
    /\ probe.call.pre[0].boosterEffect = "glove"
    /\ probe.call.pre[0].hp < MAX_HP
    /\ \E k \in 1..Len(probe.call.events) :
          /\ GlovedEvent(probe.call.events[k])
          /\ probe.call.applied[k].damage = probe.call.events[k].damage + 10
    /\ probe.ws[0].boosterEffect = "none"

\* C22: the health of every combatant of the interactive and of the headless
\* round is between 0 and 100 in every reachable state.
C22_HealthInRange ==
    /\ \A i \in DOMAIN warriors : warriors[i].hp \in 0..MAX_HP
    /\ \A i \in DOMAIN sim.warriors : sim.warriors[i].hp \in 0..MAX_HP

\* the player has eaten a burger bought during the round and stands at full
\* health while an opponent has been brought down to zero
C22_Witness ==
    /\ state = "running" /\ bought = 1
    /\ boosterPickup.type = "burger" /\ ~boosterPickup.active
    /\ warriors[0].hp = MAX_HP
    /\ \E i \in DOMAIN warriors : warriors[i].hp = 0 /\ warriors[i].dying

\* C23 as stated: a round that has a result is lost exactly when the player
\* is no longer alive-and-not-dying and won exactly when the player is the
\* only alive-and-not-dying combatant, in the interactive and in the headless
\* round.
C23_ResultByPlayer ==
    /\ state \in {"win", "lose"} =>
          /\ state = "lose" <=> ~PlayerAlive(warriors)
          /\ state = "win" <=> PlayerLast(warriors)
    /\ sim.pc = "done" =>
          /\ ~sim.win <=> ~PlayerAlive(sim.warriors)
          /\ sim.win <=> PlayerLast(sim.warriors)

\* C23, amended: the same, except that a headless round whose tick budget is
\* spent is lost although the player is still alive-and-not-dying among
\* others; no round is both won and lost.
C23_ResultByPlayerOrBudget ==
    /\ state \in {"win", "lose"} =>
          /\ state = "lose" <=> ~PlayerAlive(warriors)
          /\ state = "win" <=> PlayerLast(warriors)
    /\ sim.pc = "done" =>
          /\ ~sim.win <=> \/ ~PlayerAlive(sim.warriors)
                          \/ sim.tick = MAX_TICKS /\ ~Terminal(sim.warriors)
          /\ sim.win <=> PlayerLast(sim.warriors)

\* a headless duel lost with no combatant left standing: the player and the
\* opponent went down in the same tick
C23_Witness ==
    /\ sim.pc = "done" /\ ~sim.win /\ DOMAIN sim.warriors = {0, 1}
    /\ AliveNonDying(sim.warriors) = {} /\ sim.lateTicks = 0

\* C24: a headless round never runs more than MAX_TICKS ticks; a round that
\* has spent them without a combat outcome returns at once as a lose, with
\* the ledger closed once as for a lose: finalProfit is roundProfit,
\* roundProfit is kept, and the balance takes it, floored at zero.
C24_BudgetIsALose ==
    [][/\ sim'.tick <= MAX_TICKS
       /\ sim.pc = "running" /\ sim.tick = MAX_TICKS
          => /\ sim'.pc = "done" /\ ~sim'.win
             /\ sim'.tick = sim.tick
             /\ sim'.finalised = sim.finalised + 1
             /\ sim'.economy.finalProfit = sim.economy.roundProfit
             /\ sim'.economy.roundProfit = sim.economy.roundProfit
             /\ sim'.economy.balance =
                   Max(0, sim.economy.balance + sim.economy.roundProfit)]_sim

\* a headless round ended by the budget with the player still standing among
\* others and a round profit other than zero on the ledger
C24_Witness ==
    /\ sim.pc = "done" /\ sim.tick = MAX_TICKS /\ ~sim.win
    /\ PlayerAlive(sim.warriors) /\ ~Terminal(sim.warriors)
    /\ sim.finalised = 1
    /\ sim.economy.roundProfit # 0
    /\ sim.economy.finalProfit = sim.economy.roundProfit

\* ------------------------------------------- the game under a running ticker
\* app.ticker calls game.update on every frame, with the frame time of a
\* smooth frame (16.67 ms) or of the slowest frame the ticker reports
\* (100 ms): an update that can begin begins, and a begun update runs its
\* steps and returns
FairSpec ==
    /\ Init /\ economy = NewEconomy(INITIAL_BALANCE)
    /\ [][/\ sim = SimIdle
          /\ \/ \E m \in Modes \ {selectedMode} : OnModeSelect(m)
             \/ OnStart
             \/ OnSpeedupToggle
             \/ \E d \in {50, 300} : UpdateBegin(d)
             \/ StepInputs
             \/ UpdateEnd
          /\ UNCHANGED headless]_vars
    /\ WF_vars((\E d \in {50, 300} : UpdateBegin(d)) /\ UNCHANGED headless)
    /\ WF_vars(StepInputs /\ UNCHANGED headless)
    /\ WF_vars(UpdateEnd /\ UNCHANGED headless)

\* C25: while update calls keep arriving, every interactive round that is
\* running is eventually won or lost.
C25_RoundEnds == (state = "running") ~> (state \in {"win", "lose"})

\* C26: whenever an interactive or a headless round starts, the pair-cooldown
\* table it starts with is empty.
C26_CooldownsCleared ==
    [][/\ state # "running" /\ state' = "running"
          => pairCooldowns' = NoCooldowns
       /\ sim.pc # "running" /\ sim'.pc = "running"
          => sim'.cd = NoCooldowns]_vars

\* a second interactive round has just started with an empty table, after a
\* round in which the clock ran on to contacts that were stamped
C26_Witness ==
    /\ state = "running" /\ op = "start" /\ rounds = 2
    /\ clock > 0
    /\ pairCooldowns = NoCooldowns

\* C27: after n draws a generator built from seed s is in state
\* (s + n * 0x6d2b79f5) mod 2^32, and two generators built from the same seed
\* have returned the same values draw for draw.
C27_StateAndSequence ==
    probe.made =>
       /\ \A i \in 1..2 :
             probe.gen[i].state =
                <<(probe.seed[1] + Len(probe.gen[i].vals) * 27947
                   + (probe.seed[2] + Len(probe.gen[i].vals) * 31221) \div W16)
                  % W16,
                  (probe.seed[2] + Len(probe.gen[i].vals) * 31221) % W16>>
       /\ \A k \in 1..Min(Len(probe.gen[1].vals), Len(probe.gen[2].vals)) :
             probe.gen[1].vals[k] = probe.gen[2].vals[k]

\* both generators have been drawn to the end from the seed 0xffffffff, whose
\* state wraps past 2^32 on the first draw, and the values drawn differ from
\* one draw to the next
C27_Witness ==
    /\ probe.made /\ probe.seed = <<65535, 65535>>
    /\ Len(probe.gen[1].vals) = MaxDraws /\ Len(probe.gen[2].vals) = MaxDraws
    /\ probe.gen[1].vals = probe.gen[2].vals
    /\ probe.gen[1].vals[1] # probe.gen[1].vals[2]

\* C28: a seed string of decimal digits, "0" included, makes the round's Rng
\* with that integer as seed; any other non-empty string makes it with the
\* string hash; the empty string makes it with no seed.
C28_SeedFromString ==
    probe.made =>
       probe.arg = IF probe.str = <<>> THEN -1
                   ELSE IF \A k \in 1..Len(probe.str) : probe.str[k] \in Digits
                        THEN ParseDigits(probe.str, 0)
                        ELSE HashFrom(probe.str, 0)

\* C29: a mid-round purchase made while the round runs, the balance covers
\* the side bet and no pickup is active takes exactly the side-bet cost from
\* the balance and leaves one pickup of the type bought active; made in any
\* other situation it changes nothing.
C29_PurchaseOrNothing ==
    [][op' = "buy" =>
          IF state = "running" /\ economy.balance >= BOOSTER_COST
             /\ ~boosterPickup.active
          THEN /\ economy' = [economy EXCEPT !.balance = @ - 10]
               /\ boosterPickup'.active /\ boosterPickup'.type \in BoosterTypes
               /\ UNCHANGED <<state, warriors, pairCooldowns>>
          ELSE UNCHANGED <<state, economy, boosterPickup, rng, warriors,
                           pairCooldowns, bought>>]_vars

\* a purchase has taken effect in a running round: the side bet is gone from
\* the balance and the pickup lies in the arena
C29_Witness ==
    /\ state = "running" /\ op = "buy" /\ bought = 1
    /\ selectedBoosterType = "none"
    /\ boosterPickup.active /\ boosterPickup.type = "burger"
    /\ economy.balance = INITIAL_BALANCE - BET_AMOUNT - BOOSTER_COST

\* C30: whenever no update call is under way, the accumulator holds less than
\* one fixed step: an update returns with its backlog drained or discarded.
C30_BacklogDrained == pc = "idle" => accumulator < FIXED_DT

\* ------------------------------------------------- a round of three
\* The game in mode 3 (the player and two opponents), one step per update.
\* The contacts a step reports: none; the player's weapon on opponent 1;
\* the weapon of opponent 1 on opponent 2, or on the player; the latter
\* followed, in the same step, by the weapon of opponent 2 on the player.
\* Every contact comes a full cooldown after the one before.
TrioContacts(ws) ==
    {cs \in {<<>>,
             <<[a |-> 0, b |-> 1, g |-> Geom(1, 0, 0)]>>,
             <<[a |-> 1, b |-> 2, g |-> Geom(1, 0, 0)]>>,
             <<[a |-> 0, b |-> 1, g |-> Geom(0, 1, 0)]>>,
             <<[a |-> 0, b |-> 1, g |-> Geom(0, 1, 0)],
               [a |-> 0, b |-> 2, g |-> Geom(0, 1, 0)]>>} :
        \A k \in 1..Len(cs) : {cs[k].a, cs[k].b} \subseteq AliveNonDying(ws)}

TrioSpec ==
    /\ Init /\ economy = NewEconomy(INITIAL_BALANCE)
    /\ [][/\ sim = SimIdle
          /\ \/ selectedMode # 3 /\ OnModeSelect(3)
             \/ OnStart
             \/ UpdateBegin(50)
             \/ \E cs \in TrioContacts(warriors) :
                \E adv \in (IF cs = <<>> THEN {0} ELSE {COOLDOWN_MS}) :
                   /\ clock + adv <= MaxClock * COOLDOWN_MS
                   /\ PhysicsStep(cs, clock + adv, FALSE)
             \/ UpdateEnd
          /\ UNCHANGED headless]_vars

\* C31: within a round, a combatant whose health falls to zero in a step is
\* dying and still alive after it; a dying combatant stays dying, and no
\* pair it belongs to is let through processCollision in a later step; a
\* combatant stops being alive only when it was dying and its alpha has
\* reached 0.
C31_DyingFadesOut ==
    [][/\ \A i \in DOMAIN warriors \cap DOMAIN warriors' :
            /\ warriors[i].hp > 0 /\ warriors'[i].hp = 0
                  => warriors'[i].dying /\ warriors'[i].alive
            /\ warriors[i].dying => warriors'[i].dying
            /\ warriors[i].alive /\ ~warriors'[i].alive
                  => warriors[i].dying /\ warriors'[i].alpha = 0
            /\ warriors[i].dying =>
                  \A j \in DOMAIN warriors :
                     CooldownGet(pairCooldowns', pairKey(i, j))
                        = CooldownGet(pairCooldowns, pairKey(i, j))
       /\ sim.pc = "running" =>
            \A i \in DOMAIN sim.warriors :
               /\ sim.warriors[i].hp > 0 /\ sim'.warriors[i].hp = 0
                     => sim'.warriors[i].dying /\ sim'.warriors[i].alive
               /\ sim.warriors[i].dying => sim'.warriors[i].dying
               /\ sim.warriors[i].alive /\ ~sim'.warriors[i].alive
                     => sim.warriors[i].dying /\ sim'.warriors[i].alpha = 0
               /\ sim.warriors[i].dying =>
                     \A j \in DOMAIN sim.warriors :
                        CooldownGet(sim'.cd, pairKey(i, j))
                           = CooldownGet(sim.cd, pairKey(i, j))]_vars

\* an opponent of a round of three has faded out: dying, alpha 0, no longer
\* alive, while the round goes on
C31_Witness ==
    /\ state = "running" /\ pc = "stepping"
    /\ \E i \in DOMAIN warriors :
          /\ warriors[i].dying /\ ~warriors[i].alive
          /\ warriors[i].alpha = 0 /\ warriors[i].hp = 0

\* C32: sampleParams takes exactly one draw from the generator and returns
\* the win-biased preset when that draw is below the win probability and the
\* lose-biased preset otherwise, never the neutral one: always the win-biased
\* preset at probability 1, always the lose-biased preset at probability 0;
\* and the probability stored is the number asked for, clamped to [0, 1].
C32_OneDrawWinOrLose ==
    /\ winProbability = IF probe.asked < 0 THEN 0
                        ELSE IF probe.asked > 100 THEN 100 ELSE probe.asked
    /\ \A k \in 1..Len(probe.smp) :
          /\ probe.smp[k].after = RngNext(probe.smp[k].before).state
          /\ probe.smp[k].out =
                IF Below(RngNext(probe.smp[k].before).value, probe.smp[k].p)
                THEN WIN_PARAMS ELSE LOSE_PARAMS
          /\ probe.smp[k].out # NEUTRAL_PARAMS
          /\ probe.smp[k].p = 100 => probe.smp[k].out = WIN_PARAMS
          /\ probe.smp[k].p = 0 => probe.smp[k].out = LOSE_PARAMS

\* a request above 1 was stored as 1 and the fourth sample of a generator,
\* taken at that probability, returned the win-biased preset
C32_Witness ==
    /\ probe.asked = 150 /\ winProbability = 100
    /\ \E i \in 1..2 : Len(probe.gen[i].vals) = MaxDraws
    /\ Len(probe.smp) = 1 /\ probe.smp[1].p = 100
    /\ probe.smp[1].out = WIN_PARAMS
    /\ probe.smp[1].after # probe.smp[1].before

\* ------------------------------------------- Arena.ts, Physics.ts, Warrior.ts
\* Lengths are counted in 64ths of a pixel and velocities in 64ths of a pixel
\* per second, so that the halved overlaps of one collision pass are whole
\* numbers.  Square roots are taken downwards to a whole number: they are
\* exact when the bodies lie on one horizontal line and move along the axes.
Px(n) == n * 64

WARRIOR_RADIUS == Px(22)
TWO_R == WARRIOR_RADIUS * 2

\* new Arena(0, 0, ARENA_SIZE)
Arena == [x |-> 0, y |-> 0, size |-> Px(500)]

\* Math.sqrt, downwards: the largest whole number in lo..hi whose square is
\* at most x
RECURSIVE SqrtBetween(_, _, _)
SqrtBetween(x, lo, hi) ==
    IF lo = hi THEN lo
    ELSE IF ((lo + hi + 1) \div 2) * ((lo + hi + 1) \div 2) <= x
         THEN SqrtBetween(x, (lo + hi + 1) \div 2, hi)
         ELSE SqrtBetween(x, lo, (lo + hi + 1) \div 2 - 1)

\* a bounce that loses half of the reflected component
bounceCircleDamped(px, py, vx, vy, radius) ==
    [px |-> IF px - radius < Arena.x THEN Arena.x + radius
            ELSE IF px + radius > Arena.x + Arena.size
                 THEN Arena.x + Arena.size - radius ELSE px,
     py |-> IF py - radius < Arena.y THEN Arena.y + radius
            ELSE IF py + radius > Arena.y + Arena.size
                 THEN Arena.y + Arena.size - radius ELSE py,
     vx |-> IF px - radius < Arena.x THEN Abs(vx) \div 2
            ELSE IF px + radius > Arena.x + Arena.size THEN -(Abs(vx) \div 2)
                 ELSE vx,
     vy |-> IF py - radius < Arena.y THEN Abs(vy) \div 2
            ELSE IF py + radius > Arena.y + Arena.size THEN -(Abs(vy) \div 2)
                 ELSE vy]

\* a bounce that brings the centre, not the circle, back to the wall
bounceCircleCentre(px, py, vx, vy, radius) ==
    [px |-> IF px - radius < Arena.x THEN Arena.x
            ELSE IF px + radius > Arena.x + Arena.size
                 THEN Arena.x + Arena.size ELSE px,
     py |-> IF py - radius < Arena.y THEN Arena.y
            ELSE IF py + radius > Arena.y + Arena.size
                 THEN Arena.y + Arena.size ELSE py,
     vx |-> IF px - radius < Arena.x THEN Abs(vx)
            ELSE IF px + radius > Arena.x + Arena.size THEN -Abs(vx) ELSE vx,
     vy |-> IF py - radius < Arena.y THEN Abs(vy)
            ELSE IF py + radius > Arena.y + Arena.size THEN -Abs(vy) ELSE vy]

\* Arena.bounceCircle
bounceCircle(px, py, vx, vy, radius) ==
    [px |-> IF px - radius < Arena.x THEN Arena.x + radius
            ELSE IF px + radius > Arena.x + Arena.size
                 THEN Arena.x + Arena.size - radius ELSE px,
     py |-> IF py - radius < Arena.y THEN Arena.y + radius
            ELSE IF py + radius > Arena.y + Arena.size
                 THEN Arena.y + Arena.size - radius ELSE py,
     vx |-> IF px - radius < Arena.x THEN Abs(vx)
            ELSE IF px + radius > Arena.x + Arena.size THEN -Abs(vx) ELSE vx,
     vy |-> IF py - radius < Arena.y THEN Abs(vy)
            ELSE IF py + radius > Arena.y + Arena.size THEN -Abs(vy) ELSE vy]

\* Warrior.normalise: a velocity of magnitude below 1e-6 is left as it is
normalise(w) ==
    IF w.vx = 0 /\ w.vy = 0 THEN w
    ELSE [w EXCEPT
            !.vx = (w.vx * w.speed)
                      \div SqrtBetween(w.vx * w.vx + w.vy * w.vy, 0, 46340),
            !.vy = (w.vy * w.speed)
                      \div SqrtBetween(w.vx * w.vx + w.vy * w.vy, 0, 46340)]

\* integrateMotion(warriors, FIXED_DT)
integrateMotion(ws) ==
    [i \in DOMAIN ws |->
        IF ~ws[i].alive THEN ws[i]
        ELSE [ws[i] EXCEPT !.px = ws[i].px + (ws[i].vx * FIXED_DT) \div 3000,
                           !.py = ws[i].py + (ws[i].vy * FIXED_DT) \div 3000]]

\* what bounceCircle returns for each body that resolveWalls passes to it
BounceAll(ws) ==
    [i \in DOMAIN ws |->
        bounceCircle(ws[i].px, ws[i].py, ws[i].vx, ws[i].vy, WARRIOR_RADIUS)]

\* resolveWalls
resolveWalls(ws) ==
    [i \in DOMAIN ws |->
        IF ~ws[i].alive THEN ws[i]
        ELSE normalise([ws[i] EXCEPT !.px = BounceAll(ws)[i].px,
                                     !.py = BounceAll(ws)[i].py,
                                     !.vx = BounceAll(ws)[i].vx,
                                     !.vy = BounceAll(ws)[i].vy])]

DistSq(a, b) == (b.px - a.px) * (b.px - a.px) + (b.py - a.py) * (b.py - a.py)

\* the body of the pair loop for the bodies a and b that overlap at the
\* distance dist along (dx, dy); at coincident centres dist is 0.001 and
\* dx / dist and dy / dist are 0, so nothing is pushed and nothing exchanged
Separate(ws, a, b, dx, dy, dist) ==
    IF dx = 0 /\ dy = 0
    THEN [ws EXCEPT ![a] = normalise(ws[a]), ![b] = normalise(ws[b])]
    ELSE LET overlap == TWO_R - dist
             dot == ((ws[a].vx - ws[b].vx) * dx + (ws[a].vy - ws[b].vy) * dy)
                       \div dist
         IN  [ws EXCEPT
                ![a] = normalise(
                          [ws[a] EXCEPT
                             !.px = ws[a].px - (dx * overlap) \div (2 * dist),
                             !.py = ws[a].py - (dy * overlap) \div (2 * dist),
                             !.vx = ws[a].vx - (dot * dx) \div dist,
                             !.vy = ws[a].vy - (dot * dy) \div dist]),
                ![b] = normalise(
                          [ws[b] EXCEPT
                             !.px = ws[b].px + (dx * overlap) \div (2 * dist),
                             !.py = ws[b].py + (dy * overlap) \div (2 * dist),
                             !.vx = ws[b].vx + (dot * dx) \div dist,
                             !.vy = ws[b].vy + (dot * dy) \div dist])]

\* one pass of the inner loop: the pair is recorded and separated when the
\* centres are closer than TWO_R
ResolvePair(r, a, b) ==
    IF DistSq(r.ws[a], r.ws[b]) < TWO_R * TWO_R
    THEN [ws |-> Separate(r.ws, a, b, r.ws[b].px - r.ws[a].px,
                          r.ws[b].py - r.ws[a].py,
                          SqrtBetween(DistSq(r.ws[a], r.ws[b]), 0, 46340)),
          pairs |-> Append(r.pairs, <<a, b>>)]
    ELSE r

\* the loops over i and j > i of the filtered list idx
RECURSIVE CollideFrom(_, _, _, _)
CollideFrom(r, idx, i, j) ==
    IF i > Len(idx) THEN r
    ELSE IF j > Len(idx) THEN CollideFrom(r, idx, i + 1, i + 2)
    ELSE CollideFrom(ResolvePair(r, idx[i], idx[j]), idx, i, j + 1)

\* resolveWarriorCollisions: the bodies after it and the pairs it returns;
\* the loops run over warriors.filter(w => w.alive && !w.dying)
resolveWarriorCollisions(ws) ==
    LET keep(i) == ws[i].alive /\ ~ws[i].dying
    IN  CollideFrom([ws |-> ws, pairs |-> <<>>],
                    SelectSeq([i \in 1..Len(ws) |-> i], keep), 1, 2)

\* the whole circle lies inside the arena
InsideArena(w) ==
    /\ w.px - WARRIOR_RADIUS >= Arena.x
    /\ w.px + WARRIOR_RADIUS <= Arena.x + Arena.size
    /\ w.py - WARRIOR_RADIUS >= Arena.y
    /\ w.py + WARRIOR_RADIUS <= Arena.y + Arena.size

\* ------------------------------------------------------ bodies in the arena
\* Two to four bodies on one horizontal line, each moving along an axis at
\* SIM_WARRIOR_SPEED (two pixels per step), some of them beyond a wall,
\* touching a wall, overlapping or at the same place; the third of three may
\* be dying.  One of the three functions of a physics step, or the step as a
\* whole, is then applied.
MaxPhysOps == 1           \* operations applied to one set of bodies

\* the sets of bodies an operation is applied to
PhysInputs ==
    LET PxSet == {Px(10), Px(22), Px(52), Px(82), Px(490)}
        Rows  == {Px(250), Px(490)}
        Down  == <<0, SIM_WARRIOR_SPEED * 64>>
        VSet  == {<<SIM_WARRIOR_SPEED * 64, 0>>,
                  <<-(SIM_WARRIOR_SPEED * 64), 0>>, Down}
        Body(px, py, v, dying) ==
            [px |-> px, py |-> py, vx |-> v[1], vy |-> v[2],
             speed |-> SIM_WARRIOR_SPEED * 64, alive |-> TRUE, dying |-> dying]
        At(y) ==
            {<<Body(x1, y, v1, FALSE), Body(x2, y, v2, FALSE)>> :
                x1 \in PxSet, x2 \in PxSet, v1 \in VSet, v2 \in VSet}
            \cup
            {<<Body(x[1], y, v, FALSE), Body(x[2], y, Down, FALSE),
               Body(x[3], y, Down, d)>> :
                x \in PxSet \X PxSet \X PxSet, v \in VSet, d \in BOOLEAN}
            \cup
            {<<Body(x[1], y, Down, FALSE), Body(x[2], y, Down, FALSE),
               Body(x[3], y, Down, FALSE), Body(x[4], y, Down, FALSE)>> :
                x \in PxSet \X PxSet \X PxSet \X PxSet}
    IN  UNION {At(y) : y \in Rows}

PhysInit ==
    /\ GameInit
    /\ economy = NewEconomy(INITIAL_BALANCE)
    /\ sim = SimIdle
    /\ scene = [runs |-> 0, pos |-> 0, fresh |-> TRUE, memo |-> NoCooldowns]
    /\ \E bs \in PhysInputs :
          probe = [op |-> "init", n |-> 0, pre |-> bs, bin |-> <<>>,
                   bout |-> <<>>, mid |-> bs, pairs |-> <<>>, ws |-> bs]

\* resolveWalls(warriors, arena) alone
ApplyWalls ==
    /\ probe.n < MaxPhysOps
    /\ probe' = [op |-> "walls", n |-> probe.n + 1, pre |-> probe.ws,
                 bin |-> probe.ws, bout |-> BounceAll(probe.ws),
                 mid |-> resolveWalls(probe.ws), pairs |-> <<>>,
                 ws |-> resolveWalls(probe.ws)]

\* resolveWarriorCollisions(warriors) alone
ApplyCollisions ==
    /\ probe.n < MaxPhysOps
    /\ probe' = [op |-> "collide", n |-> probe.n + 1, pre |-> probe.ws,
                 bin |-> <<>>, bout |-> <<>>, mid |-> probe.ws,
                 pairs |-> resolveWarriorCollisions(probe.ws).pairs,
                 ws |-> resolveWarriorCollisions(probe.ws).ws]

\* physicsStep: integrateMotion, resolveWalls and resolveWarriorCollisions
\* on the bodies that are alive and not dying; the others are left as they are
ApplyStep ==
    /\ probe.n < MaxPhysOps
    /\ \E passed \in {{i \in DOMAIN probe.ws :
                          probe.ws[i].alive /\ ~probe.ws[i].dying}} :
       \E moved \in {[i \in DOMAIN probe.ws |->
                        IF i \in passed THEN integrateMotion(probe.ws)[i]
                        ELSE probe.ws[i]]} :
       \E mid \in {[i \in DOMAIN probe.ws |->
                      IF i \in passed THEN resolveWalls(moved)[i]
                      ELSE moved[i]]} :
          probe' = [op |-> "step", n |-> probe.n + 1, pre |-> probe.ws,
                    bin |-> [i \in passed |-> moved[i]],
                    bout |-> [i \in passed |-> BounceAll(moved)[i]],
                    mid |-> mid,
                    pairs |-> resolveWarriorCollisions(mid).pairs,
                    ws |-> resolveWarriorCollisions(mid).ws]

PhysSpec ==
    /\ PhysInit
    /\ [][/\ \/ ApplyWalls
             \/ ApplyCollisions
             \/ ApplyStep
          /\ UNCHANGED <<gameVars, sim, scene>>]_vars

\* C33: bounceCircle is idempotent: a circle that lies inside the arena comes
\* back with the same position and velocity, a second application changes
\* nothing of what the first returned, and the absolute value of each velocity
\* component is that of the input.
C33_BounceIdempotent ==
    \A i \in DOMAIN probe.bout :
       /\ InsideArena(probe.bin[i])
             => /\ probe.bout[i].px = probe.bin[i].px
                /\ probe.bout[i].py = probe.bin[i].py
                /\ probe.bout[i].vx = probe.bin[i].vx
                /\ probe.bout[i].vy = probe.bin[i].vy
       /\ bounceCircle(probe.bout[i].px, probe.bout[i].py, probe.bout[i].vx,
                       probe.bout[i].vy, WARRIOR_RADIUS) = probe.bout[i]
       /\ Abs(probe.bout[i].vx) = Abs(probe.bin[i].vx)
       /\ Abs(probe.bout[i].vy) = Abs(probe.bin[i].vy)

\* a circle beyond the left and the bottom wall, moving left, was brought back
\* to both walls with its horizontal velocity reversed
C33_Witness ==
    /\ probe.op = "walls"
    /\ \E i \in DOMAIN probe.bout :
          /\ probe.bin[i].px = Px(10) /\ probe.bin[i].py = Px(490)
          /\ probe.bin[i].vx < 0
          /\ probe.bout[i].px = WARRIOR_RADIUS
          /\ probe.bout[i].py = Px(500) - WARRIOR_RADIUS
          /\ probe.bout[i].vx = -probe.bin[i].vx

\* C34: after resolveWarriorCollisions has run, over two, three or four
\* bodies at any places, no two bodies that are alive and not dying have
\* their centres closer than twice the body radius.
C34_NoOverlapLeft ==
    probe.op = "collide" =>
       \A i, j \in DOMAIN probe.ws :
          (/\ i < j
           /\ probe.ws[i].alive /\ ~probe.ws[i].dying
           /\ probe.ws[j].alive /\ ~probe.ws[j].dying)
             => DistSq(probe.ws[i], probe.ws[j]) >= TWO_R * TWO_R

\* C35: after a wall resolution and after a collision resolution the velocity
\* of every body that took part has the magnitude of the body's speed (to
\* within one pixel per second, the square root being rounded), also
\* when the exchange along the normal left the body without velocity.
C35_SpeedRestored ==
    /\ probe.op \in {"walls", "step"} =>
          \A i \in DOMAIN probe.bout :
             Abs(SqrtBetween(probe.mid[i].vx * probe.mid[i].vx
                             + probe.mid[i].vy * probe.mid[i].vy, 0, 46340)
                 - probe.mid[i].speed) <= Px(1)
    /\ \A k \in DOMAIN probe.pairs :
          \A i \in {probe.pairs[k][1], probe.pairs[k][2]} :
             Abs(SqrtBetween(probe.ws[i].vx * probe.ws[i].vx
                             + probe.ws[i].vy * probe.ws[i].vy, 0, 46340)
                 - probe.ws[i].speed) <= Px(1)

\* C39 (as claimed): at the end of every physics step the body circle of
\* every combatant that is alive and not dying lies inside the arena.
C39_InsideAtEndOfStep ==
    probe.op = "step" =>
       \A i \in DOMAIN probe.ws :
          (probe.ws[i].alive /\ ~probe.ws[i].dying) => InsideArena(probe.ws[i])

\* C39: when the wall resolution of a physics step has run, the body circle
\* of every combatant it was given, which are those alive and not dying, lies
\* inside the arena; the separation of overlapping bodies that runs after it
\* is not followed by another wall resolution in that step.
C39_InsideAfterWalls ==
    probe.op \in {"walls", "step"} =>
       \A i \in DOMAIN probe.bout : InsideArena(probe.mid[i])

\* a step in which a body that had moved beyond a wall was brought back by
\* the wall resolution, and in which the separation then pushed a body
\* beyond a wall
C39_Witness ==
    /\ probe.op = "step"
    /\ \E i \in DOMAIN probe.bin :
          ~InsideArena(probe.bin[i]) /\ InsideArena(probe.mid[i])
    /\ \E i \in DOMAIN probe.ws :
          /\ probe.ws[i].alive /\ ~probe.ws[i].dying
          /\ InsideArena(probe.mid[i]) /\ ~InsideArena(probe.ws[i])

RECURSIVE AppliedOnDying(_, _)
AppliedOnDying(events, ws) ==
    IF events = <<>> THEN FALSE
    ELSE IF Shielded(Head(events), ws)
    THEN AppliedOnDying(Tail(events),
             [ws EXCEPT ![Head(events).victim].boosterEffect = "none"])
    ELSE \/ ws[Head(events).victim].dying
         \/ ws[Head(events).attacker].dying
         \/ AppliedOnDying(Tail(events), Damaged(Head(events), ws))

\* C37: no damage event whose victim or attacker was dying when it was
\* applied reaches Economy.processDamageEvent: in a physics step of a round
\* of three, whatever contacts the step reports, the events that
\* applyDamageEvents hands to the ledger all have a victim and an attacker
\* that were not dying when the event's turn came.
C37_NoEventOfTheDying ==
    [][\A cs \in TrioContacts(warriors) :
          (/\ pc = "stepping" /\ steps' = steps + 1
           /\ economy' = ResolveContacts(cs, clock', outcomeParams, warriors,
                                         rng, pairCooldowns, economy).economy
           /\ warriors' = FadeAll(ResolveContacts(cs, clock', outcomeParams,
                                                  warriors, rng, pairCooldowns,
                                                  economy).ws))
             => ~AppliedOnDying(ResolveContacts(cs, clock', outcomeParams,
                                                warriors, rng, pairCooldowns,
                                                economy).raw, warriors)]_vars

\* C38: a combatant in the dying state has health 0 in every reachable
\* state, of an interactive round and of a headless one: once dying is set
\* nothing, a burger pickup included, raises its health.
C38_DyingHasNoHealth ==
    /\ \A i \in DOMAIN warriors : warriors[i].dying => warriors[i].hp = 0
    /\ \A i \in DOMAIN sim.warriors :
          sim.warriors[i].dying => sim.warriors[i].hp = 0

\* C40: booster state never passes from one round into the next: when a
\* round enters "running" the player's armed effect is "none", and a pickup
\* is active exactly when a booster was selected for this round, and is then
\* of the selected type, whatever was bought, collected or left in the arena
\* in the rounds before.
C40_NoBoosterCarriedOver ==
    [][(state = "ready" /\ state' = "running")
          => /\ warriors'[0].boosterEffect = "none"
             /\ boosterPickup'.active <=> selectedBoosterType # "none"
             /\ boosterPickup'.active
                   => boosterPickup'.type = selectedBoosterType]_vars

\* a second round has just started with no booster selected and no pickup in
\* the arena
C40_Witness ==
    /\ state = "running" /\ op = "start" /\ rounds >= 2
    /\ selectedBoosterType = "none" /\ ~boosterPickup.active
    /\ warriors[0].boosterEffect = "none"
====
